---- MODULE Spec2Model ----
(***************************************************************************)
(* State-machine model of the SmartReview backend services:                *)
(*   StoreService  (backend/app/services/store_service.py)                 *)
(*   ReviewService (backend/app/services/review_service.py)                *)
(*   AIService     (backend/app/services/ai_service.py)                    *)
(* The services are process-wide singletons driven by one asyncio event    *)
(* loop.  A handler runs atomically up to an await that really suspends;   *)
(* the only such awaits are the provider calls of AIService.               *)
(***************************************************************************)
EXTENDS Integers, Sequences, FiniteSets, TLC

\* ------------------------------------------------------------------ bounds
\* stores created by create_store in one behaviour (the sample store is extra)
MaxStores == 1
\* reviews created (generate_review + create_review) in one behaviour
MaxReviews == 2
\* reviews created in one behaviour of SpecRepo
MaxRepoReviews == 1
\* feedback records captured in one behaviour
MaxFeedback == 1
\* items in the body of one batch endpoint call
MaxBatch == 2
\* readings the clock of datetime.utcnow() goes through in one behaviour
MaxClock == 2
MaxLen == 2

\* ------------------------------------------------------- program constants
\* Field(ge=1, le=5) on ReviewRequest.rating / ReviewCreate.rating
MinRating == 1
MaxRating == 5
Ratings == MinRating..MaxRating
\* _determine_review_type thresholds
PositiveFrom == 4
NeutralAt == 3
\* min_rating_for_external of the sample store and of StoreSettings()
DefaultMinRating == 4

\* store ids: the sample store "sample-salon-001" is 1, uuid4 ids follow it
SampleStoreId == 1
StoreIds == 1..(1 + MaxStores)
ReviewIds == 1..MaxReviews
FeedbackIds == 1..MaxFeedback
\* generate_review calls that can be suspended at the provider at the same time
Requests == {"g1", "g2"}
\* absent review in a ReviewGenerationResult (review=None)
NoReview == 0
\* an Optional[datetime] that is None
NoTime == -1

QrCodes == {"qr_sample_001", "qr_b"}

ReviewTypes == {"positive", "neutral", "negative"}
ReviewStatuses == {"draft", "generated", "published", "archived"}
ReviewSources == {"ai_generated", "user_input", "manual"}

\* ------------------------------------------------------------------ inputs
GooglePlatform == [type |-> "google", url |-> "google_url", is_active |-> TRUE]
HotpepperPlatform == [type |-> "hotpepper", url |-> "hotpepper_url", is_active |-> TRUE]
HotpepperInactive == [type |-> "hotpepper", url |-> "hotpepper_url", is_active |-> FALSE]

\* the Platform a caller of add_store_platform sends: a type no store has yet
BookingPlatform == [type |-> "booking", url |-> "booking_url", is_active |-> TRUE]

\* platform lists a caller sends in StoreCreate / StoreUpdate
PlatformLists == { <<>>, <<GooglePlatform, HotpepperInactive>> }

\* page numbers (ge=1) and page sizes (ge=1, le=100) a caller of a list
\* endpoint sends
PageInputs == 1..3
LimitInputs == 1..2

\* min_rating_for_external values a caller sends (StoreSettings has no range check)
ThresholdInputs == {1, 4, 6}

Settings(t) == [min_rating_for_external |-> t]

\* a field of an update body: not sent, sent as null, or sent with a value
Unset == [set |-> FALSE, isNone |-> FALSE]
None == [set |-> TRUE, isNone |-> TRUE]
Val(v) == [set |-> TRUE, isNone |-> FALSE, v |-> v]

\* StoreUpdate bodies
StorePatches ==
  { [platforms |-> Unset, settings |-> Unset] } \cup
  { [platforms |-> Val(p), settings |-> Unset] : p \in PlatformLists } \cup
  { [platforms |-> Unset, settings |-> Val(Settings(t))] : t \in ThresholdInputs } \cup
  { [platforms |-> None, settings |-> Val(Settings(1))] }

\* the empty dict
Empty == [x \in {} |-> 0]

VARIABLES
  stores,            \* StoreService._stores: store_id -> Store
  qr_code_mappings,  \* StoreService._qr_code_mappings: qr code -> store_id
  reviews,           \* ReviewService._reviews: review_id -> Review
  feedback,          \* ReviewService._feedback: feedback_id -> FeedbackCapture
  storeIdsUsed,      \* number of uuid4 store ids drawn so far
  reviewIdsUsed,     \* number of uuid4 review ids drawn so far
  feedbackIdsUsed,   \* number of uuid4 feedback ids drawn so far
  gen,               \* per generation request: position and locals of generate_review
  cap,               \* position of the capture_feedback call in progress
  ret,               \* what the last handler that ran to completion returned
  now,               \* what datetime.utcnow() returns
  batch,             \* the batch endpoint call in progress and its results
  parse              \* the last provider response parsed, and what it gave

vars == << stores, qr_code_mappings, reviews, feedback, storeIdsUsed,
           reviewIdsUsed, feedbackIdsUsed, gen, cap, ret, now, batch, parse >>

storeVars == << stores, qr_code_mappings, storeIdsUsed >>
reviewVars == << reviews, reviewIdsUsed >>
feedbackVars == << feedback, feedbackIdsUsed, cap >>

\* ----------------------------------------------------------------- helpers
\* dict without one key
Without(d, k) == [x \in DOMAIN d \ {k} |-> d[x]]
\* dict with d[k] = v
With(d, k, v) == [x \in DOMAIN d \cup {k} |-> IF x = k THEN v ELSE d[x]]

\* update_dict = update_data.dict(exclude_unset=True);
\* for field, value in update_dict.items():
\*     if hasattr(obj, field) and value is not None: setattr(obj, field, value)
PatchMutantByAlias(obj, patch) ==
  [f \in DOMAIN obj |->
     IF f \in DOMAIN patch \ {"review_type"} /\ patch[f].set /\ ~patch[f].isNone
     THEN patch[f].v ELSE obj[f]]
ApplyPatch(obj, patch) ==
  [f \in DOMAIN obj |->
     IF f \in DOMAIN patch /\ patch[f].set /\ ~patch[f].isNone
     THEN patch[f].v ELSE obj[f]]

\* the object update_store / update_review writes back (the loop over the
\* patch, then updated_at = datetime.utcnow())
Updated(obj, update_data) ==
  [ApplyPatch(obj, update_data) EXCEPT !.updated_at = now]

\* what a handler returned: ok is False for the None / False of a miss, id is
\* the id of the record a create made (0 for the handlers that make none)
Returned(op, ok, id) == [op |-> op, ok |-> ok, id |-> id]

\* str(uuid.uuid4()): an id no earlier call has drawn; the ids of a repository
\* are numbered in the order they are drawn, drawn being how many were
Uuid4MutantRepeats(drawn) == IF drawn = 0 THEN 1 ELSE drawn
uuid4(drawn) == drawn + 1

\* ------------------------------------------------------------ StoreService
SampleStore ==
  [platforms |-> <<GooglePlatform, HotpepperPlatform>>,
   settings |-> Settings(DefaultMinRating), created_at |-> 0, updated_at |-> 0]

\* StoreService.get_store
get_store(store_id) == store_id \in DOMAIN stores

\* StoreService.get_store_by_qr: the store id found, or 0 for None
get_store_by_qr(qr_code) ==
  IF qr_code \in DOMAIN qr_code_mappings
     /\ get_store(qr_code_mappings[qr_code])
  THEN qr_code_mappings[qr_code]
  ELSE 0

\* StoreService.create_store
create_store(platforms, settings) ==
  /\ storeIdsUsed < MaxStores
  /\ LET store_id == SampleStoreId + uuid4(storeIdsUsed) IN
       /\ stores' = With(stores, store_id,
                         [platforms |-> platforms, settings |-> settings,
                          created_at |-> now, updated_at |-> now])
       /\ ret' = Returned("create_store", TRUE, store_id)
  /\ storeIdsUsed' = storeIdsUsed + 1
  /\ UNCHANGED << qr_code_mappings, reviewVars, feedbackVars, gen, now, batch, parse >>

\* StoreService.update_store
update_store(store_id, update_data) ==
  /\ IF store_id \notin DOMAIN stores
     THEN /\ ret' = Returned("update_store", FALSE, 0)
          /\ UNCHANGED stores
     ELSE /\ stores' = [stores EXCEPT ![store_id] = Updated(@, update_data)]
          /\ ret' = Returned("update_store", TRUE, 0)
  /\ UNCHANGED << qr_code_mappings, storeIdsUsed, reviewVars, feedbackVars, gen, now, batch, parse >>

\* the mappings delete_store leaves: every code that pointed to store_id is removed
QrMutantKeepAll(mappings, store_id) == mappings
QrMutantDropAll(mappings, store_id) == Empty
QrAfterDelete(mappings, store_id) ==
  [qr \in {q \in DOMAIN mappings : mappings[q] # store_id} |-> mappings[qr]]

DeleteMutantCascades(store_id) ==
  /\ IF store_id \in DOMAIN stores
     THEN /\ stores' = Without(stores, store_id)
          /\ qr_code_mappings' = QrAfterDelete(qr_code_mappings, store_id)
          /\ reviews' = [id \in {k \in DOMAIN reviews : reviews[k].store_id # store_id}
                           |-> reviews[id]]
          /\ ret' = Returned("delete_store", TRUE, 0)
     ELSE /\ ret' = Returned("delete_store", FALSE, 0)
          /\ UNCHANGED << stores, qr_code_mappings, reviews >>
  /\ UNCHANGED << storeIdsUsed, reviewIdsUsed, feedbackVars, gen, now, batch, parse >>

\* StoreService.delete_store
delete_store(store_id) ==
  /\ IF store_id \in DOMAIN stores
     THEN /\ stores' = Without(stores, store_id)
          /\ qr_code_mappings' = QrAfterDelete(qr_code_mappings, store_id)
          /\ ret' = Returned("delete_store", TRUE, 0)
     ELSE /\ ret' = Returned("delete_store", FALSE, 0)
          /\ UNCHANGED << stores, qr_code_mappings >>
  /\ UNCHANGED << storeIdsUsed, reviewVars, feedbackVars, gen, now, batch, parse >>

AddMutantAnyStore(store_id) == TRUE
\* the check add_qr_mapping makes before it writes the index
AddQrAllowed(store_id) == store_id \in DOMAIN stores

\* StoreService.add_qr_mapping
add_qr_mapping(qr_code, store_id) ==
  /\ IF ~AddQrAllowed(store_id)
     THEN /\ ret' = Returned("add_qr_mapping", FALSE, 0)
          /\ UNCHANGED qr_code_mappings
     ELSE /\ qr_code_mappings' = With(qr_code_mappings, qr_code, store_id)
          /\ ret' = Returned("add_qr_mapping", TRUE, 0)
  /\ UNCHANGED << stores, storeIdsUsed, reviewVars, feedbackVars, gen, now, batch, parse >>

\* StoreService.remove_qr_mapping
remove_qr_mapping(qr_code) ==
  /\ IF qr_code \in DOMAIN qr_code_mappings
     THEN /\ qr_code_mappings' = Without(qr_code_mappings, qr_code)
          /\ ret' = Returned("remove_qr_mapping", TRUE, 0)
     ELSE /\ ret' = Returned("remove_qr_mapping", FALSE, 0)
          /\ UNCHANGED qr_code_mappings
  /\ UNCHANGED << stores, storeIdsUsed, reviewVars, feedbackVars, gen, now, batch, parse >>

\* the endpoint add_store_platform (endpoints/store.py lines 203-217): it calls
\* store_service.add_store_platform, a method StoreService does not have; the
\* attribute lookup raises AttributeError, which is no HTTPException, so the
\* last except clause answers HTTP 500.  ret.id is the store the call named.
add_store_platform(store_id, platform) ==
  /\ ret' = Returned("add_store_platform", FALSE, store_id)
  /\ UNCHANGED << storeVars, reviewVars, feedbackVars, gen, now, batch, parse >>

\* --------------------------------------------------------------- AIService
\* what the provider does with one chat.completions.create call
ProviderOutcomes == {"ok", "api_error", "no_content"}

\* AIService._call_openai: the text of the completion; an error of the API and
\* a completion without content (None.strip()) both end in the except clause,
\* which raises Exception("Failed to generate review: ...")
call_openai(outcome) ==
  IF outcome = "ok"
  THEN [raised |-> FALSE, error |-> "none"]
  ELSE [raised |-> TRUE, error |-> "Failed to generate review"]

\* AIService.generate_review: prompt, provider call, parse, metadata; every
\* exception is raised again as Exception("AI service error: ...")
ai_generate_review(outcome) ==
  LET response == call_openai(outcome) IN
    IF response.raised
    THEN [raised |-> TRUE, error |-> "AI service error"]
    ELSE [raised |-> FALSE, error |-> "none"]

\* AIService._parse_response. A response is a sequence of pieces of text: a
\* letter, a blank, a newline, one of the two labels, or LongRun, a run of
\* TitleLimit letters.
TitleLimit == 100
Whitespace == {" ", "\n"}
TitleLabel == "Title:"
ReviewLabel == "Review:"
LongRun == "a run of letters"
\* the first part of a piece that title[:100] cuts through
CutPiece == "a cut piece"

\* len(piece)
Width(piece) ==
  IF piece = LongRun THEN TitleLimit
  ELSE IF piece = TitleLabel THEN 6
  ELSE IF piece = ReviewLabel THEN 7
  ELSE IF piece = "Service review" THEN 14
  ELSE IF piece = "Great experience" THEN 16
  ELSE 1

Least(S) == CHOOSE x \in S : \A y \in S : x <= y
Greatest(S) == CHOOSE x \in S : \A y \in S : x >= y

\* str.strip(): whitespace taken off both ends
RECURSIVE LStrip(_)
LStrip(text) ==
  IF text # << >> /\ Head(text) \in Whitespace THEN LStrip(Tail(text)) ELSE text
RECURSIVE RStrip(_)
RStrip(text) ==
  IF text # << >> /\ text[Len(text)] \in Whitespace
  THEN RStrip(SubSeq(text, 1, Len(text) - 1)) ELSE text
Strip(text) == RStrip(LStrip(text))

\* the text from position i up to the next newline or the end
LineFrom(text, i) ==
  LET ends == {j \in i..Len(text) : text[j] = "\n"} IN
    SubSeq(text, i, IF ends = {} THEN Len(text) ELSE Least(ends) - 1)

\* re.search(r'Title:\s*(.+?)(?:\n|$)'): behind the label, \s* takes the
\* whitespace and gives it back piece by piece until (.+?) can start on
\* something that is not a newline; the group then runs to the end of that
\* line. TitleStarts is how much whitespace \s* can keep.
TitleStarts(rest) ==
  {k \in 0..(Len(rest) - Len(LStrip(rest))) : k < Len(rest) /\ rest[k + 1] # "\n"}
NoMatch == [matched |-> FALSE, group |-> << >>]
title_match(response) ==
  LET at == {p \in 1..Len(response) :
               /\ response[p] = TitleLabel
               /\ TitleStarts(SubSeq(response, p + 1, Len(response))) # {}} IN
    IF at = {} THEN NoMatch
    ELSE LET rest == SubSeq(response, Least(at) + 1, Len(response)) IN
           [matched |-> TRUE,
            group |-> LineFrom(rest, Greatest(TitleStarts(rest)) + 1)]

\* re.search(r'Review:\s*(.+)', DOTALL): the first label with something
\* behind it; the group is everything behind the whitespace, or the last
\* piece of whitespace when there is nothing else
ReviewMutantOneLine(response) ==
  LET at == {q \in 1..(Len(response) - 1) : response[q] = ReviewLabel} IN
    IF at = {} THEN NoMatch
    ELSE LET rest == SubSeq(response, Least(at) + 1, Len(response))
             group == LStrip(rest) IN
           [matched |-> TRUE,
            group |-> IF group = << >> THEN << rest[Len(rest)] >>
                      ELSE LineFrom(group, 1)]
review_match(response) ==
  LET at == {q \in 1..(Len(response) - 1) : response[q] = ReviewLabel} IN
    IF at = {} THEN NoMatch
    ELSE LET rest == SubSeq(response, Least(at) + 1, Len(response))
             group == LStrip(rest) IN
           [matched |-> TRUE,
            group |-> IF group = << >> THEN << rest[Len(rest)] >> ELSE group]

\* str.split('\n') and '\n'.join(lines)
RECURSIVE SplitLines(_)
SplitLines(text) ==
  LET ends == {j \in 1..Len(text) : text[j] = "\n"} IN
    IF ends = {} THEN << text >>
    ELSE << SubSeq(text, 1, Least(ends) - 1) >>
         \o SplitLines(SubSeq(text, Least(ends) + 1, Len(text)))
RECURSIVE JoinLines(_)
JoinLines(lines) ==
  IF lines = << >> THEN << >>
  ELSE IF Len(lines) = 1 THEN lines[1]
  ELSE lines[1] \o << "\n" >> \o JoinLines(Tail(lines))

\* re.sub(r'^Label:\s*', '', text)
RemovePrefix(text, label) ==
  IF text # << >> /\ Head(text) = label THEN LStrip(Tail(text)) ELSE text

\* text[:room]
RECURSIVE Cut(_, _)
Cut(text, room) ==
  IF text = << >> THEN << >>
  ELSE IF Width(Head(text)) <= room
  THEN << Head(text) >> \o Cut(Tail(text), room - Width(Head(text)))
  ELSE IF room > 0 THEN << CutPiece >>
  ELSE << >>

\* the title made up when none was found
SynthesizedTitle(content) ==
  IF \E i \in 1..Len(content) : content[i] \in {"good", "great"}
  THEN << "Great experience" >> ELSE << "Service review" >>

parse_response(response) ==
  LET title_m == title_match(response)
      review_m == review_match(response)
      both == title_m.matched /\ review_m.matched
      lines == SplitLines(Strip(response))
      found_title == IF both THEN Strip(title_m.group) ELSE Strip(lines[1])
      found_content == IF both THEN Strip(review_m.group)
                       ELSE IF Len(lines) > 1 THEN Strip(JoinLines(Tail(lines)))
                       ELSE Strip(response)
      clean_title == RemovePrefix(RemovePrefix(found_title, TitleLabel), ReviewLabel)
      clean_content == RemovePrefix(found_content, ReviewLabel)
      title == IF clean_title = << >> THEN SynthesizedTitle(clean_content)
               ELSE clean_title
      content == IF clean_content = << >> THEN Strip(response) ELSE clean_content IN
    [title |-> Cut(title, TitleLimit), content |-> content]

\* ----------------------------------------------------------- ReviewService
\* ReviewService._determine_review_type
TypeMutantStrict(rating) ==
  IF rating > PositiveFrom THEN "positive"
  ELSE IF rating = NeutralAt THEN "neutral"
  ELSE "negative"
determine_review_type(rating) ==
  IF rating >= PositiveFrom THEN "positive"
  ELSE IF rating = NeutralAt THEN "neutral"
  ELSE "negative"

\* [platform.url for platform in store.platforms if platform.is_active]
UrlsMutantAll(platforms) == [i \in 1..Len(platforms) |-> platforms[i].url]
RECURSIVE ActiveUrls(_)
ActiveUrls(platforms) ==
  IF platforms = << >> THEN << >>
  ELSE LET rest == ActiveUrls(Tail(platforms)) IN
         IF Head(platforms).is_active
         THEN << Head(platforms).url >> \o rest
         ELSE rest

\* ReviewService._get_redirect_platforms
get_redirect_platforms(store, rating) ==
  IF rating >= store.settings.min_rating_for_external
  THEN ActiveUrls(store.platforms)
  ELSE << >>

\* ReviewGenerationResult
Result(success, review, error, suggestions, redirect_platforms) ==
  [success |-> success, review |-> review, error |-> error,
   suggestions |-> suggestions, redirect_platforms |-> redirect_platforms]

\* the two suggestions of the low-rating result
GuidanceSuggestions ==
  << "This is a low rating review. Please provide feedback for improvement.",
     "Your valuable feedback will be used to improve our services." >>

\* a request slot in which no generate_review call has been made
NoResult == Result(FALSE, NoReview, "none", << >>, << >>)
IdleRequest ==
  [pc |-> "idle", store_id |-> 0, rating |-> 0, redirect_platforms |-> << >>,
   calls |-> 0, provider |-> "none", result |-> NoResult]

\* generate_review, the gate of line 52: low ratings take the feedback path
GateMutantInclusive(rating, store) ==
  rating <= store.settings.min_rating_for_external
GateMutantNever(rating, store) == FALSE
LowRating(rating, store) == rating < store.settings.min_rating_for_external

\* generate_review, the result when the store is not found
NotFoundMutantSuccess(store_id) ==
  Result(TRUE, NoReview, "none", << >>, << >>)
StoreNotFoundResult(store_id) ==
  Result(FALSE, NoReview, "Store not found", << >>, << >>)

\* generate_review, the result of the feedback path
FeedbackMutantNoSuggestions == Result(TRUE, NoReview, "none", << >>, << >>)
FeedbackPathResult == Result(TRUE, NoReview, "none", GuidanceSuggestions, << >>)

\* generate_review, line 64: the AI path calls ai_service.generate_review, which
\* calls _call_openai, once, outside any loop
CallsAfterInvoke(calls) == calls + 1

\* generate_review, the except clause: the exception becomes a failure result
ExceptMutantReraise(error) == [pc |-> "raised", result |-> NoResult]
ExceptHandler(error) ==
  [pc |-> "returned", result |-> Result(FALSE, NoReview, error, << >>, << >>)]

\* the Review object generate_review builds
GeneratedMutantNeutral(store_id, rating) ==
  [store_id |-> store_id, rating |-> rating, content |-> "generated text",
   review_type |-> "neutral",
   review_source |-> "ai_generated", status |-> "generated",
   created_at |-> now, updated_at |-> now, published_at |-> NoTime]
GeneratedReview(store_id, rating) ==
  [store_id |-> store_id, rating |-> rating, content |-> "generated text",
   review_type |-> determine_review_type(rating),
   review_source |-> "ai_generated", status |-> "generated",
   created_at |-> now, updated_at |-> now, published_at |-> NoTime]

\* reviews whose id is drawn but which wait for the provider
InFlight == Cardinality({g \in Requests : gen[g].pc = "awaiting_provider"})

\* ReviewService.generate_review up to the provider call (lines 39-64)
BeginMutantWritesFirst(g, store_id, rating) ==
  /\ gen[g].pc # "awaiting_provider"
  /\ get_store(store_id)
  /\ reviewIdsUsed + InFlight < MaxReviews
  /\ reviews' = With(reviews, uuid4(reviewIdsUsed), GeneratedReview(store_id, rating))
  /\ reviewIdsUsed' = reviewIdsUsed + 1
  /\ gen' = [gen EXCEPT ![g] =
        [IdleRequest EXCEPT !.pc = "awaiting_provider", !.store_id = store_id,
           !.rating = rating, !.calls = CallsAfterInvoke(0), !.provider = "pending"]]
  /\ UNCHANGED << storeVars, feedbackVars, ret, now, batch, parse >>
generate_review_begin(g, store_id, rating) ==
  /\ gen[g].pc # "awaiting_provider"
  /\ IF ~get_store(store_id)
     THEN gen' = [gen EXCEPT ![g] =
            [IdleRequest EXCEPT !.pc = "returned", !.store_id = store_id,
               !.rating = rating, !.result = StoreNotFoundResult(store_id)]]
     ELSE LET store == stores[store_id]
              redirect_platforms == get_redirect_platforms(store, rating) IN
            IF LowRating(rating, store)
            THEN gen' = [gen EXCEPT ![g] =
                   [IdleRequest EXCEPT !.pc = "returned", !.store_id = store_id,
                      !.rating = rating, !.result = FeedbackPathResult]]
            ELSE /\ reviewIdsUsed + InFlight < MaxReviews
                 /\ gen' = [gen EXCEPT ![g] =
                      [IdleRequest EXCEPT !.pc = "awaiting_provider",
                         !.store_id = store_id, !.rating = rating,
                         !.redirect_platforms = redirect_platforms,
                         !.calls = CallsAfterInvoke(0), !.provider = "pending"]]
  /\ UNCHANGED << storeVars, reviewVars, feedbackVars, ret, now, batch, parse >>

\* the review dict after the provider call: written only when nothing raised
PersistMutantAlways(ai, review_id, review) == With(reviews, review_id, review)
ReviewsAfterGeneration(ai, review_id, review) ==
  IF ai.raised THEN reviews ELSE With(reviews, review_id, review)

ResumeMutantRetries(g, outcome) ==
  /\ gen[g].pc = "awaiting_provider"
  /\ LET ai == ai_generate_review(outcome)
         review_id == uuid4(reviewIdsUsed)
         review == GeneratedReview(gen[g].store_id, gen[g].rating) IN
       /\ reviews' = ReviewsAfterGeneration(ai, review_id, review)
       /\ IF ai.raised
          THEN /\ gen' = [gen EXCEPT ![g].calls = 3 - @]
               /\ UNCHANGED reviewIdsUsed
          ELSE /\ gen' = [gen EXCEPT ![g].pc = "returned",
                            ![g].provider = outcome,
                            ![g].result =
                               Result(TRUE, review_id, "none", << >>,
                                      gen[g].redirect_platforms)]
               /\ reviewIdsUsed' = reviewIdsUsed + 1
  /\ UNCHANGED << storeVars, feedbackVars, ret, now, batch, parse >>

\* ReviewService.generate_review from the provider's answer on (lines 64-101)
generate_review_resume(g, outcome) ==
  /\ gen[g].pc = "awaiting_provider"
  /\ LET ai == ai_generate_review(outcome)
         review_id == uuid4(reviewIdsUsed)
         review == GeneratedReview(gen[g].store_id, gen[g].rating)
         failed == ExceptHandler(ai.error) IN
       /\ reviews' = ReviewsAfterGeneration(ai, review_id, review)
       /\ IF ai.raised
          THEN /\ gen' = [gen EXCEPT ![g].pc = failed.pc,
                                     ![g].provider = outcome,
                                     ![g].result = failed.result]
               /\ UNCHANGED reviewIdsUsed
          ELSE /\ gen' = [gen EXCEPT ![g].pc = "returned",
                            ![g].provider = outcome,
                            ![g].result =
                               Result(TRUE, review_id, "none", << >>,
                                      gen[g].redirect_platforms)]
               /\ reviewIdsUsed' = reviewIdsUsed + 1
  /\ UNCHANGED << storeVars, feedbackVars, ret, now, batch, parse >>

\* ReviewCreate bodies: review_type and review_source are fields of the body
ReviewCreateInputs ==
  [store_id : StoreIds, rating : Ratings, content : {"written text"},
   review_type : ReviewTypes, review_source : {"manual", "ai_generated"}]

\* ReviewUpdate bodies (rating, review_type and status of the model's Review)
ReviewPatches ==
  { [rating |-> Unset, review_type |-> Unset, status |-> Unset] } \cup
  { [rating |-> Val(r), review_type |-> Unset, status |-> Unset] : r \in {2, 5} } \cup
  { [rating |-> Unset, review_type |-> Val(t), status |-> Unset] : t \in ReviewTypes } \cup
  { [rating |-> Unset, review_type |-> Unset, status |-> Val(st)] : st \in ReviewStatuses } \cup
  { [rating |-> None, review_type |-> Val("neutral"), status |-> Val("archived")] }

\* the Review object create_review builds
CreatedReview(review_data) ==
  [store_id |-> review_data.store_id, rating |-> review_data.rating,
   content |-> review_data.content,
   review_type |-> review_data.review_type,
   review_source |-> review_data.review_source, status |-> "draft",
   created_at |-> now, updated_at |-> now, published_at |-> NoTime]

\* ReviewService.create_review
create_review(review_data) ==
  /\ reviewIdsUsed + InFlight < MaxReviews
  /\ LET review_id == uuid4(reviewIdsUsed) IN
       /\ reviews' = With(reviews, review_id, CreatedReview(review_data))
       /\ ret' = Returned("create_review", TRUE, review_id)
  /\ reviewIdsUsed' = reviewIdsUsed + 1
  /\ UNCHANGED << storeVars, feedbackVars, gen, now, batch, parse >>

\* ReviewService.update_review (the review it returns carries review_id)
update_review(review_id, update_data) ==
  /\ IF review_id \notin DOMAIN reviews
     THEN /\ ret' = Returned("update_review", FALSE, 0)
          /\ UNCHANGED reviews
     ELSE /\ reviews' = [reviews EXCEPT ![review_id] = Updated(@, update_data)]
          /\ ret' = Returned("update_review", TRUE, review_id)
  /\ UNCHANGED << storeVars, reviewIdsUsed, feedbackVars, gen, now, batch, parse >>

\* ReviewService.delete_review
delete_review(review_id) ==
  /\ IF review_id \in DOMAIN reviews
     THEN /\ reviews' = Without(reviews, review_id)
          /\ ret' = Returned("delete_review", TRUE, 0)
     ELSE /\ ret' = Returned("delete_review", FALSE, 0)
          /\ UNCHANGED reviews
  /\ UNCHANGED << storeVars, reviewIdsUsed, feedbackVars, gen, now, batch, parse >>

\* the three assignments of publish_review (lines 246-248)
PublishedMutantRederive(review) ==
  [review EXCEPT !.status = "published", !.published_at = now, !.updated_at = now,
                 !.review_type = determine_review_type(review.rating)]
Published(review) ==
  [review EXCEPT !.status = "published", !.published_at = now, !.updated_at = now]

PublishMutantRefusesArchived(review_id) ==
  /\ IF review_id \notin DOMAIN reviews \/ reviews[review_id].status = "archived"
     THEN /\ ret' = Returned("publish_review", FALSE, 0)
          /\ UNCHANGED reviews
     ELSE /\ reviews' = [reviews EXCEPT ![review_id] = Published(@)]
          /\ ret' = Returned("publish_review", TRUE, review_id)
  /\ UNCHANGED << storeVars, reviewIdsUsed, feedbackVars, gen, now, batch, parse >>

\* ReviewService.publish_review (the review it returns carries review_id)
publish_review(review_id) ==
  /\ IF review_id \notin DOMAIN reviews
     THEN /\ ret' = Returned("publish_review", FALSE, 0)
          /\ UNCHANGED reviews
     ELSE /\ reviews' = [reviews EXCEPT ![review_id] = Published(@)]
          /\ ret' = Returned("publish_review", TRUE, review_id)
  /\ UNCHANGED << storeVars, reviewIdsUsed, feedbackVars, gen, now, batch, parse >>

\* list(d.values()) as the keys of the values: a dict keeps insertion order,
\* and ids are drawn in increasing order
RECURSIVE ValuesFrom(_, _)
ValuesFrom(d, k) ==
  IF \A x \in DOMAIN d : x < k THEN << >>
  ELSE (IF k \in DOMAIN d THEN << k >> ELSE << >>) \o ValuesFrom(d, k + 1)
Values(d) == ValuesFrom(d, 1)

\* where list.sort(key=created_at, reverse=True) puts one more item: the sort
\* is stable, so behind every item that is as new or newer
RECURSIVE InsertNewestFirst(_, _, _)
InsertNewestFirst(sorted, k, d) ==
  IF sorted = << >> THEN << k >>
  ELSE IF d[Head(sorted)].created_at >= d[k].created_at
       THEN << Head(sorted) >> \o InsertNewestFirst(Tail(sorted), k, d)
       ELSE << k >> \o sorted

\* items.sort(key=lambda x: x.created_at or datetime.min, reverse=True)
RECURSIVE SortNewestFirst(_, _)
SortNewestFirst(items, d) ==
  IF items = << >> THEN << >>
  ELSE InsertNewestFirst(SortNewestFirst(SubSeq(items, 1, Len(items) - 1), d),
                         items[Len(items)], d)

\* items[start_idx:end_idx] of a Python list, for indexes that are >= 0
Slice(items, start_idx, end_idx) ==
  LET last == IF end_idx < Len(items) THEN end_idx ELSE Len(items) IN
    IF start_idx >= last THEN << >> ELSE SubSeq(items, start_idx + 1, last)

\* the pagination block of list_reviews, list_stores and list_feedback
PageMutantFromPage(items, page, limit) ==
  [items |-> Slice(items, page * limit, page * limit + limit),
   total |-> Len(items), page |-> page, limit |-> limit]
Paginate(items, page, limit) ==
  LET start_idx == (page - 1) * limit
      end_idx == start_idx + limit IN
    [items |-> Slice(items, start_idx, end_idx),
     total |-> Len(items), page |-> page, limit |-> limit]

\* a store_id and a status filter argument that are None
NoStoreFilter == 0
NoStatusFilter == "None"

\* the two filters of list_reviews
FilterReviews(store_id, status) ==
  LET all == Values(reviews)
      of_store == IF store_id # NoStoreFilter
                  THEN SelectSeq(all, LAMBDA k : reviews[k].store_id = store_id)
                  ELSE all IN
    IF status # NoStatusFilter
    THEN SelectSeq(of_store, LAMBDA k : reviews[k].status = status)
    ELSE of_store

\* ReviewService.list_reviews: the ids of the reviews of the page, and total
list_reviews(store_id, status, page, limit) ==
  Paginate(SortNewestFirst(FilterReviews(store_id, status), reviews), page, limit)

\* ReviewService.list_feedback
list_feedback(store_id, page, limit) ==
  LET all == Values(feedback)
      filtered == IF store_id # NoStoreFilter
                  THEN SelectSeq(all, LAMBDA k : feedback[k].store_id = store_id)
                  ELSE all IN
    Paginate(SortNewestFirst(filtered, feedback), page, limit)

\* StoreService.list_stores without a search term
list_stores(page, limit) ==
  Paginate(SortNewestFirst(Values(stores), stores), page, limit)

\* no batch endpoint call has been made
IdleBatch == [op |-> "none", items |-> << >>, results |-> << >>]

\* bodies of batch_publish_reviews: lists of review ids, repeats allowed
BatchPublishInputs == UNION { [1..n -> ReviewIds] : n \in 0..MaxBatch }

\* the review dict after the loop of batch_publish_reviews over review_ids
RECURSIVE PublishMutantAbort(_, _)
PublishMutantAbort(revs, review_ids) ==
  IF review_ids = << >> THEN revs
  ELSE LET review_id == Head(review_ids) IN
         IF review_id \in DOMAIN revs
         THEN PublishMutantAbort([revs EXCEPT ![review_id] = Published(@)],
                                 Tail(review_ids))
         ELSE revs
RECURSIVE PublishAll(_, _)
PublishAll(revs, review_ids) ==
  IF review_ids = << >> THEN revs
  ELSE LET review_id == Head(review_ids)
           after == IF review_id \in DOMAIN revs
                    THEN [revs EXCEPT ![review_id] = Published(@)]
                    ELSE revs IN
         PublishAll(after, Tail(review_ids))

\* the results list of batch_publish_reviews (lines 254-258)
RECURSIVE PublishResults(_, _)
PublishResults(revs, review_ids) ==
  IF review_ids = << >> THEN << >>
  ELSE LET review_id == Head(review_ids)
           found == review_id \in DOMAIN revs IN
         << [review_id |-> review_id, success |-> found,
             error |-> IF found THEN "none" ELSE "Review not found"] >>
         \o PublishResults(PublishAll(revs, << review_id >>), Tail(review_ids))

\* the endpoint batch_publish_reviews: no await of its loop suspends
batch_publish_reviews(review_ids) ==
  /\ batch.op # "generating"
  /\ reviews' = PublishAll(reviews, review_ids)
  /\ batch' = [op |-> "publish", items |-> review_ids,
               results |-> PublishResults(reviews, review_ids)]
  /\ UNCHANGED << storeVars, reviewIdsUsed, feedbackVars, gen, ret, now, parse >>

\* the request slot of the generate_review call a batch is waiting in
BatchSlot == "g2"

\* bodies of batch_generate_reviews: lists of ReviewRequest, for the sample
\* store and for a store id that was never created
BatchRequests ==
  { [store_id |-> SampleStoreId, rating |-> MinRating],
    [store_id |-> SampleStoreId, rating |-> MaxRating],
    [store_id |-> MaxStores + 2, rating |-> MaxRating] }
BatchGenerateInputs == UNION { [1..n -> BatchRequests] : n \in 0..MaxBatch }

\* the entry batch_generate_reviews appends for one request (lines 222-227)
ItemOutcome(request, result) ==
  [store_id |-> request.store_id, success |-> result.success,
   review_id |-> result.review, error |-> result.error]

\* the loop of batch_generate_reviews from the next request on, through every
\* request whose generate_review call returns without waiting (store not
\* found, feedback path), up to the first one that waits for the provider
RECURSIVE RunToAwait(_, _)
RunToAwait(results, requests) ==
  IF Len(results) = Len(requests) THEN results
  ELSE LET request == requests[Len(results) + 1] IN
         IF ~get_store(request.store_id)
         THEN RunToAwait(Append(results,
                  ItemOutcome(request, StoreNotFoundResult(request.store_id))),
                requests)
         ELSE IF LowRating(request.rating, stores[request.store_id])
         THEN RunToAwait(Append(results, ItemOutcome(request, FeedbackPathResult)),
                         requests)
         ELSE results

\* the slot of a generate_review call that waits for the provider
AwaitingProvider(request) ==
  [IdleRequest EXCEPT !.pc = "awaiting_provider", !.store_id = request.store_id,
     !.rating = request.rating,
     !.redirect_platforms =
        get_redirect_platforms(stores[request.store_id], request.rating),
     !.calls = CallsAfterInvoke(0), !.provider = "pending"]

\* the endpoint batch_generate_reviews from the call to its first wait for
\* the provider, or to its return when no request reaches the provider
batch_generate_reviews(requests) ==
  /\ batch.op # "generating"
  /\ gen[BatchSlot].pc # "awaiting_provider"
  /\ LET results == RunToAwait(<< >>, requests) IN
       IF Len(results) = Len(requests)
       THEN /\ batch' = [op |-> "generate", items |-> requests,
                         results |-> results]
            /\ UNCHANGED gen
       ELSE /\ reviewIdsUsed + InFlight < MaxReviews
            /\ batch' = [op |-> "generating", items |-> requests,
                         results |-> results]
            /\ gen' = [gen EXCEPT ![BatchSlot] =
                         AwaitingProvider(requests[Len(results) + 1])]
  /\ UNCHANGED << storeVars, reviewVars, feedbackVars, ret, now, parse >>

\* batch_generate_reviews from the provider's answer to the next wait for
\* the provider, or to the return of the endpoint
batch_generate_resume(outcome) ==
  /\ batch.op = "generating"
  /\ gen[BatchSlot].pc = "awaiting_provider"
  /\ LET request == batch.items[Len(batch.results) + 1]
         ai == ai_generate_review(outcome)
         review_id == uuid4(reviewIdsUsed)
         review == GeneratedReview(request.store_id, request.rating)
         result == IF ai.raised
                   THEN ExceptHandler(ai.error).result
                   ELSE Result(TRUE, review_id, "none", << >>,
                               gen[BatchSlot].redirect_platforms)
         results == RunToAwait(Append(batch.results, ItemOutcome(request, result)),
                               batch.items) IN
       /\ reviews' = ReviewsAfterGeneration(ai, review_id, review)
       /\ reviewIdsUsed' = IF ai.raised THEN reviewIdsUsed ELSE reviewIdsUsed + 1
       /\ IF Len(results) = Len(batch.items)
          THEN /\ batch' = [batch EXCEPT !.op = "generate", !.results = results]
               /\ gen' = [gen EXCEPT ![BatchSlot] =
                            [@ EXCEPT !.pc = "returned", !.provider = outcome,
                                      !.result = result]]
          ELSE /\ reviewIdsUsed' + InFlight - 1 < MaxReviews
               /\ batch' = [batch EXCEPT !.results = results]
               /\ gen' = [gen EXCEPT ![BatchSlot] =
                            AwaitingProvider(batch.items[Len(results) + 1])]
  /\ UNCHANGED << storeVars, feedbackVars, ret, now, parse >>

\* the capture_feedback call in progress
IdleCapture == [pc |-> "idle", feedback_id |-> 0, provider |-> "none"]

\* capture_feedback, line 329: the record is put into the dict before the try
StoredMutantAfterCall(feedback_id, record) == feedback
FeedbackStored(feedback_id, record) == With(feedback, feedback_id, record)

\* AIService.suggest_improvements: every exception of the provider call and of
\* the parsing ends in its except clause, which returns the fallback list
suggest_improvements(outcome) ==
  [raised |-> FALSE,
   suggestions |-> IF outcome = "ok" THEN "parsed" ELSE "fallback"]

\* capture_feedback, the except clause around the suggestion call: the
\* exception is logged, the function goes on to return feedback_id
CaptureExcept(raised) == [surfaced |-> FALSE]

\* ReviewService.get_feedback: whether it returns a record
get_feedback(feedback_id) == feedback_id \in DOMAIN feedback

CaptureMutantChecksStore(store_id, rating) ==
  /\ cap.pc # "awaiting_provider"
  /\ feedbackIdsUsed < MaxFeedback
  /\ LET feedback_id == uuid4(feedbackIdsUsed) IN
       IF get_store(store_id)
       THEN /\ feedback' = FeedbackStored(feedback_id,
                                          [store_id |-> store_id, rating |-> rating,
                                           created_at |-> now])
            /\ cap' = [pc |-> "awaiting_provider", feedback_id |-> feedback_id,
                       provider |-> "pending"]
            /\ UNCHANGED ret
       ELSE /\ UNCHANGED feedback
            /\ cap' = [pc |-> "returned", feedback_id |-> 0, provider |-> "none"]
            /\ ret' = Returned("capture_feedback", FALSE, 0)
  /\ feedbackIdsUsed' = feedbackIdsUsed + 1
  /\ UNCHANGED << storeVars, reviewVars, gen, now, batch, parse >>

\* ReviewService.capture_feedback up to the suggestion call (lines 326-335)
capture_feedback_begin(store_id, rating) ==
  /\ cap.pc # "awaiting_provider"
  /\ feedbackIdsUsed < MaxFeedback
  /\ LET feedback_id == uuid4(feedbackIdsUsed) IN
       /\ feedback' = FeedbackStored(feedback_id,
                                     [store_id |-> store_id, rating |-> rating,
                                      created_at |-> now])
       /\ IF get_store(store_id)
          THEN /\ cap' = [pc |-> "awaiting_provider", feedback_id |-> feedback_id,
                          provider |-> "pending"]
               /\ UNCHANGED ret
          ELSE /\ cap' = [pc |-> "returned", feedback_id |-> feedback_id,
                          provider |-> "none"]
               /\ ret' = Returned("capture_feedback", TRUE, feedback_id)
  /\ feedbackIdsUsed' = feedbackIdsUsed + 1
  /\ UNCHANGED << storeVars, reviewVars, gen, now, batch, parse >>

\* ReviewService.capture_feedback from the provider's answer on (lines 335-340):
\* suggest_improvements returns its fallback list on any exception
capture_feedback_resume(outcome) ==
  /\ cap.pc = "awaiting_provider"
  /\ cap' = [cap EXCEPT !.pc = "returned", !.provider = outcome]
  /\ LET suggested == suggest_improvements(outcome) IN
       ret' = Returned("capture_feedback",
                       ~CaptureExcept(suggested.raised).surfaced, cap.feedback_id)
  /\ UNCHANGED << storeVars, reviewVars, feedback, feedbackIdsUsed, gen, now, batch, parse >>

\* time passes between two readings of datetime.utcnow()
Tick ==
  /\ now < MaxClock
  /\ now' = now + 1
  /\ UNCHANGED << storeVars, reviewVars, feedbackVars, gen, ret, batch, parse >>

\* ------------------------------------------------------------ the system
\* no response has been parsed
NothingParsed ==
  [kind |-> "none", x |-> << >>, y |-> << >>, response |-> << >>,
   title |-> << >>, content |-> << >>]

\* "Title: X\nReview: Y"
Labelled(x, y) == << TitleLabel, " " >> \o x \o << "\n", ReviewLabel, " " >> \o y

\* texts of at most n pieces
TextsOver(pieces, n) == UNION { [1..k -> pieces] : k \in 0..n }
\* the titles, bodies and unlabelled responses a provider answers with
TitleInputs == TextsOver({"a", " ", "\n", TitleLabel, ReviewLabel, LongRun}, MaxLen)
BodyInputs == TextsOver({"a", " ", "\n", ReviewLabel}, MaxLen + 1)
PlainInputs == TextsOver({"a", "b", " ", "\n"}, MaxLen + 1)

\* the provider's answer is parsed: an answer in the format asked for
parse_labelled_response(x, y) ==
  /\ LET parsed == parse_response(Labelled(x, y)) IN
       parse' = [kind |-> "labelled", x |-> x, y |-> y, response |-> Labelled(x, y),
                 title |-> parsed.title, content |-> parsed.content]
  /\ UNCHANGED << storeVars, reviewVars, feedbackVars, gen, ret, now, batch >>

\* the provider's answer is parsed: an answer without labels
parse_plain_response(response) ==
  /\ LET parsed == parse_response(response) IN
       parse' = [kind |-> "plain", x |-> << >>, y |-> << >>, response |-> response,
                 title |-> parsed.title, content |-> parsed.content]
  /\ UNCHANGED << storeVars, reviewVars, feedbackVars, gen, ret, now, batch >>

\* StoreService.__init__ / _initialize_sample_data and ReviewService.__init__
Init ==
  /\ stores = [s \in {SampleStoreId} |-> SampleStore]
  /\ qr_code_mappings = [q \in {"qr_sample_001"} |-> SampleStoreId]
  /\ reviews = Empty
  /\ feedback = Empty
  /\ storeIdsUsed = 0
  /\ reviewIdsUsed = 0
  /\ feedbackIdsUsed = 0
  /\ gen = [g \in Requests |-> IdleRequest]
  /\ cap = IdleCapture
  /\ ret = Returned("init", TRUE, 0)
  /\ now = 0
  /\ batch = IdleBatch
  /\ parse = NothingParsed

StoreNext ==
  \/ \E p \in PlatformLists, t \in ThresholdInputs : create_store(p, Settings(t))
  \/ \E s \in StoreIds, u \in StorePatches : update_store(s, u)
  \/ \E s \in StoreIds : delete_store(s)
  \/ \E q \in QrCodes, s \in StoreIds : add_qr_mapping(q, s)
  \/ \E q \in QrCodes : remove_qr_mapping(q)

GenerateNext ==
  \/ \E g \in Requests, s \in StoreIds, r \in Ratings : generate_review_begin(g, s, r)
  \/ \E g \in Requests, o \in ProviderOutcomes : generate_review_resume(g, o)

ReviewNext ==
  \/ \E d \in ReviewCreateInputs : create_review(d)
  \/ \E i \in ReviewIds, u \in ReviewPatches : update_review(i, u)
  \/ \E i \in ReviewIds : delete_review(i)
  \/ \E i \in ReviewIds : publish_review(i)

FeedbackNext ==
  \/ \E s \in StoreIds, r \in Ratings : capture_feedback_begin(s, r)
  \/ \E o \in ProviderOutcomes : capture_feedback_resume(o)

\* every handler of the three services, any interleaving
Next == StoreNext \/ GenerateNext \/ ReviewNext \/ FeedbackNext

Spec == Init /\ [][Next]_vars

\* the store repository and the QR-code index on their own
SpecStore == Init /\ [][StoreNext]_vars

\* one generate_review call at a time, against a store repository that is
\* updated and deleted from while the call waits for the provider
GenStorePatches ==
  { [platforms |-> Unset, settings |-> Val(Settings(t))] : t \in ThresholdInputs } \cup
  { [platforms |-> Val(<<GooglePlatform, HotpepperInactive>>), settings |-> None] }

GenNext ==
  \/ \E s \in StoreIds, r \in Ratings : generate_review_begin("g1", s, r)
  \/ \E o \in ProviderOutcomes : generate_review_resume("g1", o)
  \/ \E s \in StoreIds, u \in GenStorePatches : update_store(s, u)
  \/ \E s \in StoreIds : delete_store(s)

SpecGen == Init /\ [][GenNext]_vars

\* one generate_review call at a time next to capture_feedback calls, while
\* the threshold of the sample store is changed
FeedbackGenNext ==
  \/ \E r \in Ratings : generate_review_begin("g1", SampleStoreId, r)
  \/ \E o \in ProviderOutcomes : generate_review_resume("g1", o)
  \/ \E s \in StoreIds : capture_feedback_begin(s, MinRating)
  \/ \E o \in ProviderOutcomes : capture_feedback_resume(o)
  \/ \E t \in ThresholdInputs :
       update_store(SampleStoreId, [platforms |-> Unset, settings |-> Val(Settings(t))])

SpecFeedbackGen == Init /\ [][FeedbackGenNext]_vars

\* the review repository: generation against the sample store, and the
\* handlers that create, update, publish and delete reviews
RepoRatings == {2, 5}
RepoCreateInputs ==
  [store_id : {SampleStoreId}, rating : RepoRatings, content : {"written text"},
   review_type : ReviewTypes, review_source : {"manual"}]

\* SpecRepo draws at most MaxRepoReviews review ids
RepoRoom == reviewIdsUsed + InFlight <= MaxRepoReviews

RepoNext ==
  \/ \E r \in RepoRatings : generate_review_begin("g1", SampleStoreId, r) /\ RepoRoom'
  \/ \E o \in ProviderOutcomes : generate_review_resume("g1", o) /\ RepoRoom'
  \/ \E d \in RepoCreateInputs : create_review(d) /\ RepoRoom'
  \/ \E i \in ReviewIds, u \in ReviewPatches : update_review(i, u)
  \/ \E i \in ReviewIds : delete_review(i)
  \/ \E i \in ReviewIds : publish_review(i)

SpecRepo == Init /\ [][RepoNext]_vars

\* publishing: reviews are created, edited (every field but status),
\* published one at a time and in batches, while time passes
PublishPatches ==
  { [rating |-> Val(MinRating), content |-> Val("edited text"), review_type |-> None] }
PublishCreateInputs ==
  [store_id : {SampleStoreId}, rating : {MaxRating}, content : {"written text"},
   review_type : {"neutral"}, review_source : {"manual"}]
PublishBatches == { << i >> : i \in ReviewIds } \cup { << i, i >> : i \in ReviewIds }

PublishNext ==
  \/ \E d \in PublishCreateInputs : create_review(d) /\ RepoRoom'
  \/ \E i \in ReviewIds, u \in PublishPatches : update_review(i, u)
  \/ \E i \in ReviewIds : publish_review(i)
  \/ \E ids \in PublishBatches : batch_publish_reviews(ids)
  \/ Tick

SpecPublish == Init /\ [][PublishNext]_vars

\* str(i) for a rating
RatingKey(i) == << "1", "2", "3", "4", "5" >>[i]
\* {str(i): 0 for i in range(1, 6)}
EmptyDistribution == [k \in {RatingKey(i) : i \in 1..5} |-> 0]

\* for review in reviews: counts[key] += 1, keys being the reviews' keys
RECURSIVE TallyInto(_, _)
TallyInto(counts, keys) ==
  IF keys = << >> THEN counts
  ELSE TallyInto([counts EXCEPT ![Head(keys)] = @ + 1], Tail(keys))

\* sum(r.rating for r in reviews)
RECURSIVE RatingSum(_)
RatingSum(ids) ==
  IF ids = << >> THEN 0 ELSE reviews[Head(ids)].rating + RatingSum(Tail(ids))

\* the ReviewAnalytics of no review; the float 0.0 is the fraction 0/1
EmptyAnalytics ==
  [ok |-> TRUE, total_reviews |-> 0, average_rating |-> [sum |-> 0, of |-> 1],
   rating_distribution |-> EmptyDistribution,
   reviews_by_type |-> [t \in ReviewTypes |-> 0],
   reviews_by_status |-> [st \in ReviewStatuses |-> 0]]
\* get_analytics raises (ZeroDivisionError)
AnalyticsError == [ok |-> FALSE]

\* the calculation of get_analytics behind its early return; the float
\* sum / total_reviews is kept as the fraction
Calculated(ids) ==
  IF Len(ids) = 0 THEN AnalyticsError
  ELSE [ok |-> TRUE, total_reviews |-> Len(ids),
        average_rating |-> [sum |-> RatingSum(ids), of |-> Len(ids)],
        rating_distribution |->
          TallyInto(EmptyDistribution,
                    [i \in 1..Len(ids) |-> RatingKey(reviews[ids[i]].rating)]),
        reviews_by_type |->
          TallyInto([t \in ReviewTypes |-> 0],
                    [i \in 1..Len(ids) |-> reviews[ids[i]].review_type]),
        reviews_by_status |->
          TallyInto([st \in ReviewStatuses |-> 0],
                    [i \in 1..Len(ids) |-> reviews[ids[i]].status])]

\* ReviewService.get_analytics (without the three time-window counts)
AnalyticsMutantNoGuard(store_id) ==
  Calculated(FilterReviews(store_id, NoStatusFilter))
get_analytics(store_id) ==
  LET ids == FilterReviews(store_id, NoStatusFilter) IN
    IF ids = << >> THEN EmptyAnalytics ELSE Calculated(ids)

\* analytics: reviews of two stores with three ratings are created, given
\* another status and deleted
AnalyticsCreateInputs ==
  { [store_id |-> s, rating |-> r, content |-> "written text",
     review_type |-> determine_review_type(r), review_source |-> "manual"] :
    s \in {SampleStoreId, SampleStoreId + 1}, r \in {MinRating, NeutralAt, MaxRating} }
AnalyticsPatches ==
  { [rating |-> Unset, review_type |-> Unset, status |-> Val("archived")] }

AnalyticsNext ==
  \/ \E d \in AnalyticsCreateInputs : create_review(d)
  \/ \E i \in ReviewIds, u \in AnalyticsPatches : update_review(i, u)
  \/ \E i \in ReviewIds : publish_review(i)
  \/ \E i \in ReviewIds : delete_review(i)

SpecAnalytics == Init /\ [][AnalyticsNext]_vars

\* batches: reviews are generated in batches and published in batches, while
\* the threshold of the sample store moves
BatchStorePatches ==
  { [platforms |-> Unset, settings |-> Val(Settings(t))] :
      t \in {DefaultMinRating, MaxRating + 1} }

BatchNext ==
  \/ \E review_ids \in BatchPublishInputs : batch_publish_reviews(review_ids)
  \/ \E requests \in BatchGenerateInputs : batch_generate_reviews(requests)
  \/ \E o \in ProviderOutcomes : batch_generate_resume(o)
  \/ \E u \in BatchStorePatches : update_store(SampleStoreId, u)

SpecBatch == Init /\ [][BatchNext]_vars

\* identifiers: stores, written and generated reviews and feedback are
\* created by callers that interleave, two generations waiting at a time
IdNext ==
  \/ create_store(<< >>, Settings(DefaultMinRating))
  \/ \E d \in PublishCreateInputs : create_review(d)
  \/ \E g \in Requests : generate_review_begin(g, SampleStoreId, MaxRating)
  \/ \E g \in Requests, o \in {"ok", "api_error"} : generate_review_resume(g, o)
  \/ \E i \in ReviewIds : delete_review(i)
  \/ capture_feedback_begin(SampleStoreId, MinRating)
  \/ capture_feedback_resume("ok")

SpecIds == Init /\ [][IdNext]_vars

\* generations in flight: two callers generate for the sample store while
\* the store is patched and deleted and reviews are written and deleted
FlightStorePatches ==
  { [platforms |-> Unset, settings |-> Val(Settings(MaxRating + 1))],
    [platforms |-> Val(<< >>), settings |-> Unset] }

FlightNext ==
  \/ \E g \in Requests, r \in {MinRating, MaxRating} :
       generate_review_begin(g, SampleStoreId, r)
  \/ \E g \in Requests, o \in ProviderOutcomes : generate_review_resume(g, o)
  \/ \E u \in FlightStorePatches : update_store(SampleStoreId, u)
  \/ delete_store(SampleStoreId)
  \/ \E d \in PublishCreateInputs : create_review(d)
  \/ \E i \in ReviewIds : delete_review(i)

SpecFlight == Init /\ [][FlightNext]_vars

\* parsing: the provider answers once, with a labelled or an unlabelled text
ParseNext ==
  /\ parse = NothingParsed
  /\ \/ \E x \in TitleInputs, y \in BodyInputs : parse_labelled_response(x, y)
     \/ \E response \in PlainInputs : parse_plain_response(response)

SpecParse == Init /\ [][ParseNext]_vars

\* patching: a review and the stores are patched while time passes
PatchReviewInputs ==
  { [rating |-> Val(MinRating), content |-> Unset, review_type |-> Val("negative"),
     status |-> Unset],
    [rating |-> None, content |-> Val("edited text"), review_type |-> Unset,
     status |-> Val("archived")] }
PatchStoreInputs ==
  { [platforms |-> Val(<< >>), settings |-> Unset],
    [platforms |-> None, settings |-> Val(Settings(MinRating))] }

PatchNext ==
  \/ \E d \in PublishCreateInputs : create_review(d) /\ RepoRoom'
  \/ \E i \in ReviewIds, u \in PatchReviewInputs : update_review(i, u)
  \/ \E s \in {SampleStoreId, SampleStoreId + 1}, u \in PatchStoreInputs :
       reviewIdsUsed = 0 /\ update_store(s, u)
  \/ Tick

SpecPatch == Init /\ [][PatchNext]_vars

\* the store repository with the platform endpoint
PlatformNext ==
  \/ StoreNext
  \/ \E s \in StoreIds : add_store_platform(s, BookingPlatform)

SpecPlatform == Init /\ [][PlatformNext]_vars

\* listing: a behaviour fills and empties one of the three repositories
\* while time passes (a listing reads its own repository only)
ListCreateInputs ==
  [store_id : {SampleStoreId, SampleStoreId + 1}, rating : {MaxRating},
   content : {"written text"}, review_type : {"positive"},
   review_source : {"manual"}]

NoReviewCalls == reviewIdsUsed = 0 /\ gen["g1"].pc = "idle"
NoStoreCalls == storeIdsUsed = 0 /\ DOMAIN stores = {SampleStoreId}
NoFeedbackCalls == feedbackIdsUsed = 0

ListNext ==
  \/ /\ NoStoreCalls /\ NoFeedbackCalls
     /\ \/ \E d \in ListCreateInputs : create_review(d)
        \/ generate_review_begin("g1", SampleStoreId, MaxRating)
        \/ generate_review_resume("g1", "ok")
        \/ \E i \in ReviewIds : delete_review(i)
  \/ /\ NoReviewCalls /\ NoFeedbackCalls
     /\ \/ create_store(<< >>, Settings(DefaultMinRating))
        \/ \E s \in StoreIds : delete_store(s)
  \/ /\ NoReviewCalls /\ NoStoreCalls
     /\ \/ \E s \in {SampleStoreId, SampleStoreId + 1} :
             capture_feedback_begin(s, MinRating)
        \/ capture_feedback_resume("ok")
  \/ Tick

SpecList == Init /\ [][ListNext]_vars

\* ------------------------------------------------------------- properties
\* a step of generate_review in slot g that starts a call (lines 39-64)
BeginStep(g) == gen[g].pc # "awaiting_provider" /\ gen'[g] # gen[g]
\* a step of generate_review in slot g that takes the provider's answer
ResumeStep(g) == gen[g].pc = "awaiting_provider" /\ gen'[g] # gen[g]
\* the store the call started in this step looks up exists
StoreFound(g) == gen'[g].store_id \in DOMAIN stores
\* min_rating_for_external of that store
Threshold(g) == stores[gen'[g].store_id].settings.min_rating_for_external

\* C1: a generate_review call whose rating is below the store's
\* min_rating_for_external returns in its first step, has made no provider
\* call and leaves the review repository as it was.
C1_LowRatingNoProviderNoReview ==
  [][\A g \in Requests :
       (BeginStep(g) /\ StoreFound(g) /\ gen'[g].rating < Threshold(g))
       => /\ gen'[g].pc = "returned"
          /\ gen'[g].calls = 0
          /\ gen'[g].provider = "none"
          /\ reviews' = reviews
          /\ reviewIdsUsed' = reviewIdsUsed]_vars

\* a low-rating call has returned against a store whose threshold is above 5
C1_Witness ==
  /\ gen["g1"].pc = "returned"
  /\ gen["g1"].result.success
  /\ gen["g1"].calls = 0
  /\ gen["g1"].rating = MaxRating
  /\ gen["g1"].store_id \in DOMAIN stores
  /\ stores[gen["g1"].store_id].settings.min_rating_for_external > MaxRating

C4_StoreNotFound ==
  [][\A g \in Requests :
       (BeginStep(g) /\ ~StoreFound(g))
       => /\ gen'[g].pc = "returned"
          /\ gen'[g].result.success = FALSE
          /\ gen'[g].result.error # "none"
          /\ gen'[g].result.review = NoReview
          /\ gen'[g].calls = 0
          /\ UNCHANGED << stores, qr_code_mappings, reviews, feedback >>]_vars

\* a call for the deleted sample store has returned not-found
C4_Witness ==
  /\ gen["g1"].pc = "returned"
  /\ gen["g1"].store_id = SampleStoreId
  /\ SampleStoreId \notin DOMAIN stores
  /\ ~gen["g1"].result.success
  /\ gen["g1"].result.error = "Store not found"

\* C5: generate_review never raises: no call ends with an exception at the
\* caller, and a call whose provider call failed has returned success=false
\* with an error message.
C5_NeverRaises ==
  \A g \in Requests :
    /\ gen[g].pc # "raised"
    /\ (gen[g].pc # "awaiting_provider" /\ gen[g].provider \in {"api_error", "no_content"})
       => /\ gen[g].pc = "returned"
          /\ gen[g].result.success = FALSE
          /\ gen[g].result.error # "none"

\* a call whose completion had no content has returned
C5_Witness ==
  /\ gen["g1"].pc = "returned"
  /\ gen["g1"].provider = "no_content"
  /\ ~gen["g1"].result.success

\* C6: every step of a generate_review call, except the one that returns
\* success with the review, leaves the review repository as it was: a call
\* that fails after the store lookup has written nothing.
C6_FailureWritesNothing ==
  [][\A g \in Requests :
       (gen'[g] # gen[g] /\ ~(gen'[g].pc = "returned" /\ gen'[g].result.success
                              /\ gen'[g].result.review # NoReview))
       => (reviews' = reviews /\ reviewIdsUsed' = reviewIdsUsed)]_vars

\* a call has failed at the provider while an earlier review is stored
C6_Witness ==
  /\ gen["g1"].pc = "returned"
  /\ gen["g1"].provider = "api_error"
  /\ ~gen["g1"].result.success
  /\ DOMAIN reviews # {}

\* the review_type that goes with a rating: positive iff >= 4, neutral iff 3,
\* negative iff <= 2
TypeMatchesRating(type, rating) ==
  /\ type = "positive" <=> rating >= 4
  /\ type = "neutral" <=> rating = 3
  /\ type = "negative" <=> rating <= 2

\* C7: for every rating 1..5 the derived review type is positive iff r >= 4,
\* neutral iff r = 3, negative iff r <= 2, and every review generate_review
\* has stored carries the type derived from its rating.
C7_ReviewTypeOfRating ==
  /\ \A r \in Ratings : TypeMatchesRating(determine_review_type(r), r)
  /\ \A id \in DOMAIN reviews :
       reviews[id].status = "generated"
       => TypeMatchesRating(reviews[id].review_type, reviews[id].rating)

\* a generated negative review and a generated neutral review are stored
C7_Witness ==
  \E a, b \in DOMAIN reviews :
    /\ reviews[a].rating = 1 /\ reviews[a].review_type = "negative"
    /\ reviews[b].rating = 3 /\ reviews[b].review_type = "neutral"
    /\ reviews[a].status = "generated" /\ reviews[b].status = "generated"

\* C8 as claimed: every stored review has the review_type that goes with its
\* rating.
C8_Original_TypeAlwaysDerived ==
  \A id \in DOMAIN reviews :
    TypeMatchesRating(reviews[id].review_type, reviews[id].rating)

\* the stored reviews whose review_type does not go with their rating
Mismatched(revs) ==
  {id \in DOMAIN revs : ~TypeMatchesRating(revs[id].review_type, revs[id].rating)}

\* C8 as amended: only create_review and update_review can store a
\* review_type that does not go with the rating; a step of generate_review,
\* publish_review or delete_review never adds such a review.
C8_OnlyCreateAndUpdateSetType ==
  [][(gen' # gen \/ ret'.op \in {"publish_review", "delete_review"})
     => Mismatched(reviews') \subseteq Mismatched(reviews)]_vars

\* a generated review has been published and carries the derived type
C8_Witness ==
  /\ ret.op = "publish_review" /\ ret.ok
  /\ \E id \in DOMAIN reviews :
       /\ reviews[id].review_source = "ai_generated"
       /\ reviews[id].status = "published"
       /\ reviews[id].review_type = "positive"
       /\ reviews[id].rating = MaxRating

\* C9: every key of the QR-code index maps to the id of a store that exists.
C9_QrKeysReferenceStores ==
  \A qr \in DOMAIN qr_code_mappings : qr_code_mappings[qr] \in DOMAIN stores

\* the created store has been deleted with its code; the sample code stays
C9_Witness ==
  /\ ret.op = "delete_store" /\ ret.ok
  /\ DOMAIN stores = {SampleStoreId}
  /\ storeIdsUsed > 0
  /\ DOMAIN qr_code_mappings = {"qr_sample_001"}

\* C10: a step that deletes store s removes from the index every code that
\* mapped to s, get_store_by_qr then finds nothing for those codes, and the
\* codes that mapped to other stores keep their mapping; no code is added.
C10_DeleteCascades ==
  [][\A s \in DOMAIN stores :
       s \notin DOMAIN stores'
       => /\ ret'.ok
          /\ DOMAIN qr_code_mappings' \subseteq DOMAIN qr_code_mappings
          /\ \A qr \in DOMAIN qr_code_mappings :
               IF qr_code_mappings[qr] = s
               THEN /\ qr \notin DOMAIN qr_code_mappings'
                    /\ get_store_by_qr(qr)' = 0
               ELSE /\ qr \in DOMAIN qr_code_mappings'
                    /\ qr_code_mappings'[qr] = qr_code_mappings[qr]]_vars

\* the sample store has been deleted: its code finds nothing, the code of the
\* created store still finds that store
C10_Witness ==
  /\ ret.op = "delete_store" /\ ret.ok
  /\ SampleStoreId \notin DOMAIN stores
  /\ get_store_by_qr("qr_sample_001") = 0
  /\ "qr_b" \in DOMAIN qr_code_mappings
  /\ get_store_by_qr("qr_b") = SampleStoreId + 1

\* the fields of a review that are not timestamps
NonTimestamp(review) ==
  [f \in DOMAIN review \ {"created_at", "updated_at", "published_at"} |-> review[f]]

\* a step in which publish_review is applied to review id, by the publish
\* handler or by the batch publish endpoint
PublishStep(id) ==
  /\ now' = now /\ gen' = gen
  /\ \/ /\ ret' = Returned("publish_review", TRUE, id) /\ batch' = batch
        /\ DOMAIN reviews' = DOMAIN reviews
        /\ \A other \in DOMAIN reviews \ {id} : reviews'[other] = reviews[other]
     \/ /\ batch' # batch /\ batch'.op = "publish"
        /\ \E i \in DOMAIN batch'.items : batch'.items[i] = id

\* C11: publishing a review that is already published leaves its status
\* (published) and every field that is not a timestamp as they were, keeps
\* created_at, and sets published_at and updated_at to the current time.
C11_RepublishKeepsData ==
  [][\A id \in DOMAIN reviews :
       (reviews[id].status = "published" /\ PublishStep(id))
       => /\ id \in DOMAIN reviews'
          /\ NonTimestamp(reviews'[id]) = NonTimestamp(reviews[id])
          /\ reviews'[id].status = "published"
          /\ reviews'[id].created_at = reviews[id].created_at
          /\ reviews'[id].published_at = now
          /\ reviews'[id].updated_at = now]_vars

\* a review whose type does not go with its rating was published by a batch
\* and by publish_review, the later of the two after the clock moved
C11_Witness ==
  \E id \in DOMAIN reviews :
    /\ ret = Returned("publish_review", TRUE, id)
    /\ batch.op = "publish" /\ batch.items = << id >> /\ batch.results[1].success
    /\ reviews[id].status = "published"
    /\ reviews[id].published_at > reviews[id].created_at
    /\ ~TypeMatchesRating(reviews[id].review_type, reviews[id].rating)

\* C12: a stored review whose status is published keeps, in every step of a
\* review operation that does not delete it, a status of published or
\* archived: it never goes back to draft or generated.
C12_PublishedIsOneWay ==
  [][\A id \in DOMAIN reviews \cap DOMAIN reviews' :
       reviews[id].status = "published"
       => reviews'[id].status \in {"published", "archived"}]_vars

\* min(L, max(0, N - (p-1)*L))
ExpectedPageSize(n, page, limit) ==
  LET rest == IF n - (page - 1) * limit > 0 THEN n - (page - 1) * limit ELSE 0 IN
    IF limit < rest THEN limit ELSE rest

\* the concatenation of a sequence of lists
RECURSIVE Flatten(_)
Flatten(lists) ==
  IF lists = << >> THEN << >> ELSE Head(lists) \o Flatten(Tail(lists))

\* pages of a listing, for every page number and limit: each page has the
\* expected size and reports total = |matching|; pages 1, 2, ... together hold
\* exactly the matching records, once each, newest first
ListingOK(Page(_, _), matching, d) ==
  \A limit \in LimitInputs :
    LET pages == [page \in PageInputs |-> Page(page, limit)]
        all == Flatten([page \in PageInputs |-> pages[page].items])
        n == Cardinality(matching) IN
      /\ \A page \in PageInputs :
           /\ Len(pages[page].items) = ExpectedPageSize(n, page, limit)
           /\ pages[page].total = n
      /\ Len(all) = n
      /\ { all[i] : i \in DOMAIN all } = matching
      /\ \A i, j \in DOMAIN all :
           i < j => d[all[i]].created_at >= d[all[j]].created_at

HasPlatformType(store, type) ==
  \E i \in DOMAIN store.platforms : store.platforms[i].type = type

\* C14: a call of add_store_platform for store s with a platform of a type
\* fails, leaving the store repository unchanged, exactly when s is absent or
\* already has a platform of that type; otherwise it succeeds and the
\* platform is on the store afterwards.
C14_AddPlatform ==
  [][\A s \in StoreIds :
       (ret' # ret /\ ret'.op = "add_store_platform" /\ ret'.id = s)
       => IF s \notin DOMAIN stores \/ HasPlatformType(stores[s], BookingPlatform.type)
          THEN ~ret'.ok /\ stores' = stores
          ELSE /\ ret'.ok
               /\ s \in DOMAIN stores'
               /\ HasPlatformType(stores'[s], BookingPlatform.type)]_vars

\* every ReviewUpdate / StoreUpdate body over the fields of the model: each
\* field not sent, sent as null, or sent with a value
AllReviewPatches ==
  [rating : {Unset, None, Val(MinRating)},
   content : {Unset, None, Val("edited text")},
   review_type : {Unset, None, Val("negative")},
   status : {Unset, None, Val("archived")}]
AllStorePatches ==
  [platforms : {Unset, None, Val(<< >>)},
   settings : {Unset, None, Val(Settings(MinRating))}]

\* after is obj patched: a field sent with a value has that value, updated_at
\* is the current time, every other field (created_at among them) is as before
PatchedAsSent(obj, patch, after) ==
  /\ DOMAIN after = DOMAIN obj
  /\ \A f \in DOMAIN obj :
       IF f \in DOMAIN patch /\ patch[f].set /\ ~patch[f].isNone
       THEN after[f] = patch[f].v
       ELSE IF f = "updated_at" THEN after[f] = now
       ELSE after[f] = obj[f]

\* an update handler has run in this step
UpdateStep(op) ==
  /\ ret'.op = op /\ now' = now
  /\ ret' # ret \/ reviews' # reviews \/ stores' # stores

RECURSIVE SumOf(_, _)
SumOf(counts, keys) ==
  IF keys = {} THEN 0
  ELSE LET k == CHOOSE x \in keys : TRUE IN counts[k] + SumOf(counts, keys \ {k})

AllZero(counts) == \A k \in DOMAIN counts : counts[k] = 0

\* what get_analytics owes for the reviews it considers
AnalyticsOK(a, considered) ==
  /\ a.ok
  /\ a.total_reviews = Cardinality(considered)
  /\ DOMAIN a.rating_distribution = {"1", "2", "3", "4", "5"}
  /\ DOMAIN a.reviews_by_type = {"positive", "neutral", "negative"}
  /\ DOMAIN a.reviews_by_status = {"draft", "generated", "published", "archived"}
  /\ SumOf(a.rating_distribution, DOMAIN a.rating_distribution) = a.total_reviews
  /\ SumOf(a.reviews_by_type, DOMAIN a.reviews_by_type) = a.total_reviews
  /\ SumOf(a.reviews_by_status, DOMAIN a.reviews_by_status) = a.total_reviews
  /\ considered = {}
     => /\ AllZero(a.rating_distribution) /\ AllZero(a.reviews_by_type)
        /\ AllZero(a.reviews_by_status)
        /\ a.average_rating.sum = 0 /\ a.average_rating.of # 0

\* the store_id filters asked for: every store id and one of no store
AnalyticsFilters == StoreIds \cup {MaxStores + 2}

\* C16: for the whole repository and for every store_id filter,
\* get_analytics returns total_reviews = the number of reviews considered,
\* the three breakdowns with their fixed key sets, each summing to
\* total_reviews; with no review every count is 0 and the average is 0.0,
\* not an error.
C16_Analytics ==
  /\ AnalyticsOK(get_analytics(NoStoreFilter), DOMAIN reviews)
  /\ \A s \in AnalyticsFilters :
       AnalyticsOK(get_analytics(s), {id \in DOMAIN reviews : reviews[id].store_id = s})

\* two reviews of different stores, ratings and statuses are stored: the
\* unfiltered analytics count both, a store filter counts one of them, and
\* a store with no review gets the zero analytics
C16_Witness ==
  /\ get_analytics(NoStoreFilter).total_reviews = 2
  /\ get_analytics(NoStoreFilter).rating_distribution["5"] = 1
  /\ get_analytics(NoStoreFilter).reviews_by_status["published"] = 1
  /\ get_analytics(SampleStoreId).total_reviews = 1
  /\ get_analytics(SampleStoreId).reviews_by_type["negative"] = 1
  /\ \E s \in AnalyticsFilters : get_analytics(s) = EmptyAnalytics

\* the ids a list of review ids names
Named(review_ids) == {review_ids[i] : i \in 1..Len(review_ids)}

\* batch_publish_reviews has run in this step
BatchPublishStep == batch'.op = "publish" /\ batch' # batch
\* batch_generate_reviews has run in this step, from its call or from an
\* answer of the provider
BatchGenerateStep == batch'.op \in {"generating", "generate"} /\ batch' # batch

\* one outcome per review id, in order; an id that is not stored fails alone
\* and every stored id of the list is published, the others are untouched
PublishOutcomes ==
  LET review_ids == batch'.items
      results == batch'.results IN
    /\ Len(results) = Len(review_ids)
    /\ \A i \in 1..Len(results) :
         /\ results[i].review_id = review_ids[i]
         /\ results[i].success = (review_ids[i] \in DOMAIN reviews)
         /\ (results[i].error = "none") = results[i].success
    /\ DOMAIN reviews' = DOMAIN reviews
    /\ \A id \in DOMAIN reviews :
         IF id \in Named(review_ids)
         THEN /\ reviews'[id].status = "published"
              /\ NonTimestamp(reviews'[id]) =
                   NonTimestamp([reviews[id] EXCEPT !.status = "published"])
         ELSE reviews'[id] = reviews[id]

\* the outcomes of a batch grow in request order, one per request; a request
\* that fails gets a failure of its own, the requests behind it are still
\* run, and no stored review is changed or removed
GenerateOutcomes ==
  LET requests == batch'.items
      old == IF batch.op = "generating" THEN batch.results ELSE << >>
      new == batch'.results IN
    /\ batch.op = "generating" => requests = batch.items
    /\ Len(old) <= Len(new) /\ Len(new) <= Len(requests)
    /\ SubSeq(new, 1, Len(old)) = old
    /\ (batch'.op = "generate") = (Len(new) = Len(requests))
    /\ \A i \in 1..Len(new) : new[i].store_id = requests[i].store_id
    /\ \A i \in (Len(old) + 1)..Len(new) :
         IF batch.op = "generating" /\ i = Len(old) + 1
         THEN \/ /\ new[i].success
                 /\ new[i].review_id \in DOMAIN reviews' \ DOMAIN reviews
                 /\ reviews'[new[i].review_id].store_id = requests[i].store_id
                 /\ reviews'[new[i].review_id].rating = requests[i].rating
                 /\ reviews'[new[i].review_id].status = "generated"
              \/ /\ ~new[i].success
                 /\ new[i].review_id = NoReview
                 /\ new[i].error # "none"
                 /\ reviews' = reviews
         ELSE /\ new[i].review_id = NoReview
              /\ new[i].success = get_store(requests[i].store_id)
              /\ (new[i].error = "none") = new[i].success
    /\ batch.op # "generating" => reviews' = reviews
    /\ \A id \in DOMAIN reviews : id \in DOMAIN reviews' /\ reviews'[id] = reviews[id]
    /\ Cardinality(DOMAIN reviews' \ DOMAIN reviews) <= 1
    /\ batch'.op = "generating"
       => /\ get_store(requests[Len(new) + 1].store_id)
          /\ gen'[BatchSlot].pc = "awaiting_provider"
          /\ gen'[BatchSlot].store_id = requests[Len(new) + 1].store_id

\* C17: batch generate and batch publish return one outcome per item, in
\* input order; an item that fails (store or review not found, provider
\* error) is a failure of that item only, the items behind it are still
\* processed, and the reviews stored or published for earlier items stay.
C17_BatchIsolation ==
  /\ [](/\ batch.op \in {"generate", "publish"}
           => Len(batch.results) = Len(batch.items)
        /\ batch.op \in {"generate", "generating"}
           => \A i \in 1..Len(batch.results) :
                /\ batch.results[i].store_id = batch.items[i].store_id
                /\ batch.results[i].review_id # NoReview
                   => /\ batch.results[i].success
                      /\ batch.results[i].review_id \in DOMAIN reviews)
  /\ [][/\ BatchPublishStep => PublishOutcomes
        /\ BatchGenerateStep => GenerateOutcomes]_vars

\* a batch of two requests has returned: the provider failed for the first
\* one, the second one was still run and its review is stored
C17_Witness ==
  /\ batch.op = "generate"
  /\ Len(batch.items) = 2
  /\ ~batch.results[1].success
  /\ batch.results[1].error = "AI service error"
  /\ batch.results[2].success
  /\ batch.results[2].review_id \in DOMAIN reviews
  /\ reviews[batch.results[2].review_id].status = "generated"

\* capture_feedback has run up to its suggestion call (or, for a store that
\* does not exist, to its return) in this step
CaptureBeginStep == feedbackIdsUsed' # feedbackIdsUsed
\* capture_feedback has returned in this step
CaptureReturnStep == cap'.pc = "returned" /\ cap' # cap

\* C18: capture_feedback has stored the record when it makes the suggestion
\* call, and whatever the call does (answer, API error, empty answer) it
\* returns the new feedback id, never an error, with the record retrievable
\* by get_feedback.
C18_FeedbackKept ==
  /\ [](cap.pc = "awaiting_provider" => get_feedback(cap.feedback_id))
  /\ [][/\ CaptureBeginStep
           => /\ cap'.feedback_id \in DOMAIN feedback' \ DOMAIN feedback
              /\ \A f \in DOMAIN feedback : f \in DOMAIN feedback' /\ feedback'[f] = feedback[f]
        /\ CaptureReturnStep
           => /\ ret' = Returned("capture_feedback", TRUE, cap'.feedback_id)
              /\ cap'.feedback_id \in DOMAIN feedback'
              /\ cap.pc = "awaiting_provider" => feedback' = feedback]_vars

\* capture_feedback has returned the feedback id after the provider failed
\* on the suggestion call, and the record is retrievable
C18_Witness ==
  /\ cap.pc = "returned"
  /\ cap.provider = "api_error"
  /\ ret = Returned("capture_feedback", TRUE, cap.feedback_id)
  /\ get_feedback(cap.feedback_id)

\* the positions of the active platforms of a platform list
ActivePositions(platforms) == {i \in 1..Len(platforms) : platforms[i].is_active}
\* the position of the k-th active platform
KthActive(platforms, k) ==
  CHOOSE i \in ActivePositions(platforms) :
    Cardinality({j \in ActivePositions(platforms) : j <= i}) = k

\* urls is the list of the URLs of the active platforms, in the order of the
\* platform list, and holds no URL of an inactive platform
UrlsOfActive(urls, platforms) ==
  /\ Len(urls) = Cardinality(ActivePositions(platforms))
  /\ \A k \in 1..Len(urls) : urls[k] = platforms[KthActive(platforms, k)].url
  /\ \A k \in 1..Len(urls), i \in 1..Len(platforms) :
       urls[k] = platforms[i].url => platforms[i].is_active

\* C19: a generate_review call that takes the AI path holds, from its store
\* lookup on, the URLs of the active platforms of the store as it read it, in
\* the store's platform order and with no URL of an inactive platform, and
\* returns that list when it succeeds; a call holds or returns a non-empty
\* redirect_platforms only if its rating was at or above the threshold the
\* store had at the lookup.
C19_RedirectPlatforms ==
  [][\A g \in Requests :
       /\ (BeginStep(g) /\ StoreFound(g) /\ gen'[g].rating >= Threshold(g))
          => /\ gen'[g].pc = "awaiting_provider"
             /\ UrlsOfActive(gen'[g].redirect_platforms,
                             stores[gen'[g].store_id].platforms)
       /\ (BeginStep(g) /\ (gen'[g].redirect_platforms # << >>
                             \/ gen'[g].result.redirect_platforms # << >>))
          => StoreFound(g) /\ gen'[g].rating >= Threshold(g)
       /\ ResumeStep(g)
          => /\ gen'[g].redirect_platforms = gen[g].redirect_platforms
             /\ gen'[g].result.redirect_platforms =
                  IF gen'[g].result.success THEN gen[g].redirect_platforms
                  ELSE << >>]_vars

\* a call for a store with one active and one inactive platform has returned
\* its review with the URL of the active platform only
C19_Witness ==
  /\ gen["g1"].pc = "returned"
  /\ gen["g1"].result.success
  /\ gen["g1"].result.review \in DOMAIN reviews
  /\ gen["g1"].store_id \in DOMAIN stores
  /\ stores[gen["g1"].store_id].platforms = << GooglePlatform, HotpepperInactive >>
  /\ gen["g1"].result.redirect_platforms = << GooglePlatform.url >>

\* len(text)
RECURSIVE TextWidth(_)
TextWidth(text) == IF text = << >> THEN 0 ELSE Width(Head(text)) + TextWidth(Tail(text))

HasPiece(text, pieces) == \E i \in 1..Len(text) : text[i] \in pieces

\* a title of one line with something in it and no label
PlainTitle(x) ==
  /\ ~HasPiece(x, {"\n", TitleLabel, ReviewLabel})
  /\ Strip(x) # << >>
\* a body with something in it that does not begin with the body label
PlainBody(y) ==
  /\ Strip(y) # << >>
  /\ Head(Strip(y)) # ReviewLabel
\* a text with no whitespace at its ends
Trimmed(text) == Strip(text) = text

\* the part of a text behind its first newline
AfterFirstLine(text) ==
  SubSeq(text, Least({j \in 1..Len(text) : text[j] = "\n"}) + 1, Len(text))

GrownByOne(before, after) ==
  /\ \E id \in DOMAIN after \ DOMAIN before : DOMAIN after = DOMAIN before \cup {id}
  /\ Cardinality(DOMAIN after) = Cardinality(DOMAIN before) + 1
  /\ \A id \in DOMAIN before : after[id] = before[id]

\* C21: in every interleaving of create_store, create_review, generate_review
\* and capture_feedback calls, a step that draws an id stores one record
\* under an id its repository does not hold: the repository grows by exactly
\* one record and no record it held is overwritten or altered.
C21_FreshIds ==
  [][/\ storeIdsUsed' # storeIdsUsed => GrownByOne(stores, stores')
     /\ reviewIdsUsed' # reviewIdsUsed => GrownByOne(reviews, reviews')
     /\ feedbackIdsUsed' # feedbackIdsUsed => GrownByOne(feedback, feedback')]_vars

\* two generations waited for the provider at the same time and both stored
\* their review, next to a created store and a captured feedback
C21_Witness ==
  /\ \A g \in Requests : gen[g].pc = "returned" /\ gen[g].result.success
  /\ gen["g1"].result.review # gen["g2"].result.review
  /\ {gen["g1"].result.review, gen["g2"].result.review} \subseteq DOMAIN reviews
  /\ Cardinality(DOMAIN stores) = 2
  /\ Cardinality(DOMAIN feedback) = 1

\* the generate_review call in slot g waits for the provider
Waiting(g) == gen[g].pc = "awaiting_provider"

\* while the call in slot g waits, the repositories are open to every other
\* operation: the store it read can be patched and deleted, reviews can be
\* deleted and, as long as the model has review ids left, be written and be
\* generated by another call
OpenWhileWaiting(g) ==
  /\ ENABLED delete_store(gen[g].store_id)
  /\ \A u \in FlightStorePatches : ENABLED update_store(gen[g].store_id, u)
  /\ \A i \in ReviewIds : ENABLED delete_review(i)
  /\ reviewIdsUsed + InFlight < MaxReviews
     => /\ \A d \in PublishCreateInputs : ENABLED create_review(d)
        /\ \A other \in Requests \ {g} :
             ~Waiting(other)
             => ENABLED generate_review_begin(other, gen[g].store_id, gen[g].rating)

\* C22: a generation on the AI path has looked the store up when it calls
\* the provider and has written nothing yet; it writes its review only in
\* the step in which the provider has answered successfully; while it waits
\* every other repository operation can run, and none of them touches the
\* waiting call.
C22_NothingHeldInFlight ==
  /\ [](\A g \in Requests : Waiting(g) => OpenWhileWaiting(g))
  /\ [][\A g \in Requests :
          /\ (BeginStep(g) /\ gen'[g].pc = "awaiting_provider")
             => /\ StoreFound(g)
                /\ gen'[g].calls = 1
                /\ reviews' = reviews
          /\ (Waiting(g) /\ gen'[g].pc = "awaiting_provider") => gen'[g] = gen[g]
          /\ (ResumeStep(g) /\ reviews' # reviews)
             => /\ gen'[g].provider = "ok"
                /\ gen'[g].result.success
                /\ gen'[g].result.review \in DOMAIN reviews' \ DOMAIN reviews]_vars

\* a call waits for the provider while the store it read has been deleted
\* and another call has stored its review
C22_Witness ==
  /\ Waiting("g1")
  /\ gen["g1"].store_id \notin DOMAIN stores
  /\ gen["g2"].pc = "returned"
  /\ gen["g2"].result.success
  /\ gen["g2"].result.review \in DOMAIN reviews

\* C23: in every reachable state every review whose status is published has
\* a published_at.
C23_PublishedHasTimestamp ==
  \A id \in DOMAIN reviews :
    reviews[id].status = "published" => reviews[id].published_at # NoTime

\* platform lists of StoreCreate / StoreUpdate bodies, two of them naming one
\* platform type twice
RepeatedLists ==
  PlatformLists \cup { <<HotpepperPlatform, HotpepperInactive>>,
                       <<GooglePlatform, GooglePlatform>> }

\* the store repository under create_store, update_store and delete_store
StoreListNext ==
  \/ \E p \in RepeatedLists, t \in {MinRating, DefaultMinRating} :
       create_store(p, Settings(t))
  \/ \E s \in StoreIds, p \in RepeatedLists :
       update_store(s, [platforms |-> Val(p), settings |-> Unset])
  \/ \E s \in StoreIds : delete_store(s)

SpecLists == Init /\ [][StoreListNext]_vars

\* C24: in every reachable state of the store repository the platform types
\* of each store are pairwise distinct.
C24_DistinctPlatformTypes ==
  \A s \in DOMAIN stores :
    \A i \in DOMAIN stores[s].platforms :
      \A j \in DOMAIN stores[s].platforms :
        i # j => stores[s].platforms[i].type # stores[s].platforms[j].type

\* C25: in every reachable state every store's min_rating_for_external is an
\* integer in 1..5, so that a rating of 5 is never below it.
C25_ThresholdInRange ==
  \A s \in DOMAIN stores :
    /\ stores[s].settings.min_rating_for_external \in MinRating..MaxRating
    /\ ~LowRating(MaxRating, stores[s])

\* add_qr_mapping(qr_code, store_id) returned True with the index mapping
\* qr_code to store_id and every other code as before
AddedMapping(qr_code, store_id) ==
  /\ ret'.ok
  /\ DOMAIN qr_code_mappings' = DOMAIN qr_code_mappings \cup {qr_code}
  /\ qr_code_mappings'[qr_code] = store_id
  /\ \A qr \in DOMAIN qr_code_mappings \ {qr_code} :
       qr_code_mappings'[qr] = qr_code_mappings[qr]

\* add_qr_mapping returned False with the index as before
RefusedMapping ==
  /\ ~ret'.ok
  /\ qr_code_mappings' = qr_code_mappings

\* C26: in every reachable state and for every code and store id,
\* add_qr_mapping(code, s) returns True exactly when store s exists; then the
\* index maps code to s, whatever the code mapped to before, and every other
\* mapping is as before; when s does not exist it returns False and the index
\* is as before. The store repository is unchanged either way.
C26_AddQrMapping ==
  \A qr_code \in QrCodes, store_id \in StoreIds :
    /\ ENABLED add_qr_mapping(qr_code, store_id)
    /\ ~ENABLED (add_qr_mapping(qr_code, store_id) /\ stores' # stores)
    /\ IF store_id \in DOMAIN stores
       THEN ~ENABLED (add_qr_mapping(qr_code, store_id)
                      /\ ~AddedMapping(qr_code, store_id))
       ELSE ~ENABLED (add_qr_mapping(qr_code, store_id) /\ ~RefusedMapping)

\* the sample code, which mapped to the sample store, now maps to the
\* created store
C26_Witness ==
  /\ ret.op = "add_qr_mapping" /\ ret.ok
  /\ "qr_sample_001" \in DOMAIN qr_code_mappings
  /\ qr_code_mappings["qr_sample_001"] = SampleStoreId + 1
  /\ SampleStoreId \in DOMAIN stores

\* publish_review(review_id) returned None and no repository changed
PublishNotFound ==
  /\ ~ret'.ok
  /\ reviews' = reviews /\ stores' = stores /\ feedback' = feedback
  /\ qr_code_mappings' = qr_code_mappings

\* publish_review(review_id) returned the review, which is now published;
\* no review was added or removed and no other review changed
PublishDone(review_id) ==
  /\ ret' = Returned("publish_review", TRUE, review_id)
  /\ DOMAIN reviews' = DOMAIN reviews
  /\ reviews'[review_id].status = "published"
  /\ \A other \in DOMAIN reviews \ {review_id} : reviews'[other] = reviews[other]

\* C27: in every reachable state and for every review id, publish_review
\* returns not-found and changes nothing exactly when the id is absent; for a
\* stored review it succeeds whatever the current status is (draft,
\* generated, published or archived) and leaves the review published.
C27_PublishFromAnyStatus ==
  \A review_id \in ReviewIds :
    /\ ENABLED publish_review(review_id)
    /\ IF review_id \in DOMAIN reviews
       THEN /\ reviews[review_id].status \in ReviewStatuses
            /\ ~ENABLED (publish_review(review_id) /\ ~PublishDone(review_id))
       ELSE ~ENABLED (publish_review(review_id) /\ ~PublishNotFound)

\* an archived review, which publish_review returns to published
C27_Witness ==
  \E review_id \in DOMAIN reviews :
    /\ reviews[review_id].status = "archived"
    /\ ENABLED (publish_review(review_id) /\ PublishDone(review_id))

\* reviews and feedback of two stores, which are deleted while reviews and
\* feedback that name them are stored
OrphanCreateInputs ==
  [store_id : {SampleStoreId, SampleStoreId + 1}, rating : {MaxRating},
   content : {"written text"}, review_type : {"positive"},
   review_source : {"manual"}]

OrphanNext ==
  \/ create_store(<< >>, Settings(DefaultMinRating))
  \/ \E s \in StoreIds : delete_store(s)
  \/ \E d \in OrphanCreateInputs : create_review(d) /\ RepoRoom'
  \/ generate_review_begin("g1", SampleStoreId, MaxRating) /\ RepoRoom'
  \/ generate_review_resume("g1", "ok")
  \/ \E s \in {SampleStoreId, SampleStoreId + 1} : capture_feedback_begin(s, MinRating)
  \/ capture_feedback_resume("ok")

SpecOrphans == Init /\ [][OrphanNext]_vars

\* the elements of a list
Listed(items) == { items[i] : i \in DOMAIN items }

\* what the read operations answer for one store id
ReviewsOf(store_id) == list_reviews(store_id, NoStatusFilter, 1, MaxRepoReviews)
FeedbackOf(store_id) == list_feedback(store_id, 1, MaxFeedback)

\* every stored review and feedback record that names store_id is listed
\* under it and the reviews are counted by the analytics of that store
ListedAndCounted(store_id) ==
  LET review_ids == {k \in DOMAIN reviews : reviews[k].store_id = store_id}
      feedback_ids == {k \in DOMAIN feedback : feedback[k].store_id = store_id} IN
    /\ Listed(ReviewsOf(store_id).items) = review_ids
    /\ ReviewsOf(store_id).total = Cardinality(review_ids)
    /\ get_analytics(store_id).ok
    /\ get_analytics(store_id).total_reviews = Cardinality(review_ids)
    /\ Listed(FeedbackOf(store_id).items) = feedback_ids
    /\ \A k \in feedback_ids : get_feedback(k)

\* a call of delete_store has returned
DeleteStoreStep ==
  /\ ret'.op = "delete_store"
  /\ ret' # ret \/ stores' # stores

\* C28: a call of delete_store leaves the review and the feedback repository
\* as they were, and with them the listings and the analytics of the store
\* it deleted; in
\* every reachable state the reviews and feedback that name a store id with
\* no store are still listed under that id and counted by its analytics.
C28_DeleteStoreKeepsReviews ==
  /\ [](\A store_id \in StoreIds \ DOMAIN stores : ListedAndCounted(store_id))
  /\ [][DeleteStoreStep
        => /\ reviews' = reviews
           /\ feedback' = feedback
           /\ \A store_id \in DOMAIN stores \ DOMAIN stores' :
                /\ ReviewsOf(store_id)' = ReviewsOf(store_id)
                /\ FeedbackOf(store_id)' = FeedbackOf(store_id)
                /\ get_analytics(store_id)' = get_analytics(store_id)]_vars

\* the sample store was deleted after a review was written for it and a
\* feedback record captured for it: both are listed under its id
C28_Witness ==
  /\ ret = Returned("delete_store", TRUE, 0)
  /\ SampleStoreId \notin DOMAIN stores
  /\ cap.pc = "returned" /\ cap.provider = "ok"
  /\ \E r \in DOMAIN reviews, f \in DOMAIN feedback :
       /\ reviews[r].store_id = SampleStoreId /\ reviews[r].review_source = "manual"
       /\ feedback[f].store_id = SampleStoreId
       /\ r \in Listed(ReviewsOf(SampleStoreId).items)
       /\ f \in Listed(FeedbackOf(SampleStoreId).items)
       /\ get_analytics(SampleStoreId).total_reviews > 0

\* feedback of every rating for stores that exist and stores that do not,
\* while stores are created, given another threshold and deleted
CaptureNext ==
  \/ \E s \in StoreIds, r \in Ratings : capture_feedback_begin(s, r)
  \/ \E o \in ProviderOutcomes : capture_feedback_resume(o)
  \/ create_store(<< >>, Settings(MinRating))
  \/ \E t \in ThresholdInputs :
       update_store(SampleStoreId, [platforms |-> Unset, settings |-> Val(Settings(t))])
  \/ \E s \in StoreIds : delete_store(s)

SpecCapture == Init /\ [][CaptureNext]_vars

\* capture_feedback(store_id, rating) has stored the record under a new id
\* and has either gone on to the suggestion call, for a store that exists, or
\* returned the id without a call
Captured(store_id, rating) ==
  LET feedback_id == uuid4(feedbackIdsUsed) IN
    /\ DOMAIN feedback' = DOMAIN feedback \cup {feedback_id}
    /\ feedback_id \notin DOMAIN feedback
    /\ feedback'[feedback_id].store_id = store_id
    /\ feedback'[feedback_id].rating = rating
    /\ \A f \in DOMAIN feedback : feedback'[f] = feedback[f]
    /\ stores' = stores /\ reviews' = reviews
    /\ cap'.feedback_id = feedback_id
    /\ IF store_id \in DOMAIN stores
       THEN cap'.pc = "awaiting_provider"
       ELSE /\ cap'.pc = "returned" /\ cap'.provider = "none"
            /\ ret' = Returned("capture_feedback", TRUE, feedback_id)

\* a capture_feedback call can start: none is waiting for the provider and
\* the model has a feedback id left
CanCapture == cap.pc # "awaiting_provider" /\ feedbackIdsUsed < MaxFeedback

\* C29: for every store id, existing or not, and every rating, at or above
\* the store's threshold or below it, capture_feedback stores the record and
\* returns its id; it makes the suggestion call exactly when the store
\* exists, and returns the id whatever the call does.
C29_CaptureUnchecked ==
  /\ [](CanCapture
        => \A store_id \in StoreIds, rating \in Ratings :
             /\ ENABLED capture_feedback_begin(store_id, rating)
             /\ ~ENABLED (capture_feedback_begin(store_id, rating)
                          /\ ~Captured(store_id, rating)))
  /\ [][CaptureReturnStep
        => /\ ret' = Returned("capture_feedback", TRUE, cap'.feedback_id)
           /\ cap'.feedback_id \in DOMAIN feedback'
           /\ feedback'[cap'.feedback_id].rating \in Ratings
           /\ cap'.provider = "none"
              <=> (cap.pc # "awaiting_provider"
                   /\ feedback'[cap'.feedback_id].store_id \notin DOMAIN stores)]_vars

\* feedback with the highest rating was captured for a store id that names
\* no store: the record is stored, the id returned, no suggestion call made
C29_Witness ==
  /\ cap.pc = "returned" /\ cap.provider = "none"
  /\ ret = Returned("capture_feedback", TRUE, cap.feedback_id)
  /\ get_feedback(cap.feedback_id)
  /\ feedback[cap.feedback_id].rating = MaxRating
  /\ feedback[cap.feedback_id].store_id \notin DOMAIN stores

\* generation requests for a store that exists and a store id that names no
\* store, below and above the threshold, while the store is deleted
LiveNext ==
  \/ \E g \in Requests, s \in StoreIds, r \in {MinRating, MaxRating} :
       generate_review_begin(g, s, r)
  \/ \E g \in Requests, o \in ProviderOutcomes : generate_review_resume(g, o)
  \/ delete_store(SampleStoreId)

\* the provider call of every waiting generate_review call returns or raises:
\* the call is awaited (line 64) and the event loop resumes the coroutine
\* when the provider's answer or error arrives
ProviderAnswers ==
  \A g \in Requests : WF_vars(\E o \in ProviderOutcomes : generate_review_resume(g, o))

SpecLive == Init /\ [][LiveNext]_vars /\ ProviderAnswers

\* the four results of generate_review
StoreNotFoundOutcome(g) ==
  /\ gen[g].result = StoreNotFoundResult(gen[g].store_id)
  /\ gen[g].calls = 0
FeedbackPathOutcome(g) ==
  /\ gen[g].result.success /\ gen[g].result.review = NoReview
  /\ gen[g].calls = 0
AiSuccessOutcome(g) ==
  /\ gen[g].result.success /\ gen[g].result.review # NoReview
  /\ gen[g].calls = 1
AiFailureOutcome(g) ==
  /\ ~gen[g].result.success /\ gen[g].result.review = NoReview
  /\ gen[g].result.error = "AI service error"
  /\ gen[g].calls = 1

\* the number of the four results the returned call in slot g has
Outcomes(g) ==
  Cardinality({ k \in 1..4 :
                  << StoreNotFoundOutcome(g), FeedbackPathOutcome(g),
                     AiSuccessOutcome(g), AiFailureOutcome(g) >>[k] })

\* C30: every generate_review call whose provider call returns or fails
\* returns, with exactly one of four results: store not found, the feedback
\* path with no review, the AI path with one review stored, or an AI failure
\* with no review. The steps come in the order store lookup, threshold gate,
\* provider call, write, return: the call waits for the provider only after
\* the store was found and the rating passed the gate, a review is written
\* only in the step that takes the provider's answer, and a call that does
\* not wait returns in its first step.
C30_GenerationTerminates ==
  /\ [](\A g \in Requests : gen[g].pc = "returned" => Outcomes(g) = 1)
  /\ [][\A g \in Requests :
         /\ BeginStep(g)
            => /\ reviews' = reviews
               /\ gen'[g].pc \in {"awaiting_provider", "returned"}
               /\ gen'[g].pc = "awaiting_provider"
                  <=> (StoreFound(g) /\ gen'[g].rating >= Threshold(g))
               /\ gen'[g].pc = "returned"
                  => IF StoreFound(g)
                     THEN FeedbackPathOutcome(g)' ELSE StoreNotFoundOutcome(g)'
         /\ ResumeStep(g)
            => /\ gen'[g].pc = "returned"
               /\ \/ /\ AiSuccessOutcome(g)'
                     /\ gen'[g].result.review \notin DOMAIN reviews
                     /\ DOMAIN reviews' = DOMAIN reviews \cup {gen'[g].result.review}
                  \/ /\ AiFailureOutcome(g)'
                     /\ reviews' = reviews]_vars
  /\ \A g \in Requests : Waiting(g) ~> gen[g].pc = "returned"

\* one call has returned a stored review, the other the provider's failure,
\* after the store was deleted
C30_Witness ==
  /\ gen["g1"].pc = "returned" /\ AiSuccessOutcome("g1")
  /\ gen["g1"].result.review \in DOMAIN reviews
  /\ gen["g2"].pc = "returned" /\ AiFailureOutcome("g2")
  /\ gen["g2"].provider = "api_error"
  /\ SampleStoreId \notin DOMAIN stores

====
